---- MODULE Spec2Model ----
(***************************************************************************)
(* Control plane of the multi-tenant dashboard: tenant access checks,      *)
(* rate limiting, owner bootstrap / role update transactions on the role   *)
(* map, and the lease lock of the analytics backfill.                      *)
(*                                                                         *)
(* JavaScript values are tagged records [t, v]; a JavaScript string is a   *)
(* sequence of one-character strings, so that length and character tests   *)
(* are computed and not assumed.  null, undefined and an absent store key  *)
(* are all JNull (the store returns null for an absent path).              *)
(***************************************************************************)
EXTENDS Integers, Sequences, FiniteSets, TLC

\* ------------------------------------------------------------------------
\* Bounds of the model
\* ------------------------------------------------------------------------
\* requireTenantAccess calls in flight (SpecAccess)
NumCalls == 1
\* Bootstrap requests in flight (SpecBootstrap)
NumBoot == 2
\* Bootstrap requests racing with the UpdateRole requests of Spec
NumBootInSpec == 1
\* UpdateRole requests in flight
NumUpd == 2
\* Backfill requests in flight
NumBackfill == 2
\* last tick of the clock, in clock steps
MaxTicks == 3
\* isRateLimited calls a run of the rate limiter makes at most
MaxHits == 5
\* largest limit a caller of isRateLimited passes
MaxLimit == 3
\* longest date range a Backfill request asks for, in days
MaxDates == 2
\* ScheduledBuilder requests in flight
NumSched == 2
\* requests of the gated reads (beecomm, tabit, analytics check) in flight
NumRead == 1
\* requests of the public alert endpoint in flight
NumOref == 3

\* ------------------------------------------------------------------------
\* JavaScript values
\* ------------------------------------------------------------------------
JNull == [t |-> "null", v |-> 0]
JBool(b) == [t |-> "bool", v |-> b]
JNum(n) == [t |-> "num", v |-> n]
JStr(s) == [t |-> "str", v |-> s]

JTrue == JBool(TRUE)
JFalse == JBool(FALSE)

\* !x for the values used here: null, false, 0 and "" are falsy
Falsy(x) ==
    \/ x.t = "null"
    \/ (x.t = "bool" /\ x.v = FALSE)
    \/ (x.t = "num" /\ x.v = 0)
    \/ (x.t = "str" /\ Len(x.v) = 0)

\* the four role strings
ROwner == JStr(<<"o", "w", "n", "e", "r">>)
RManager == JStr(<<"m", "a", "n", "a", "g", "e", "r">>)
RShiftManager == JStr(<<"s", "h", "i", "f", "t", "_", "m", "a", "n", "a", "g", "e", "r">>)
RViewer == JStr(<<"v", "i", "e", "w", "e", "r">>)
\* a role string no code knows
RAdmin == JStr(<<"a", "d", "m", "i", "n">>)

\* the audit log's word for a removed role
RRemoved == JStr(<<"R", "E", "M", "O", "V", "E", "D">>)

VALID_ROLES == {ROwner, RManager, RShiftManager, RViewer}

\* ROLE_RANK[role]; 0 stands for undefined (a key the table does not hold)
ROLE_RANK(role) ==
    CASE role = ROwner -> 4
      [] role = RManager -> 3
      [] role = RShiftManager -> 2
      [] role = RViewer -> 1
      [] OTHER -> 0

\* x || d on a rank: undefined (0) is falsy
OrElse(x, d) == IF x = 0 THEN d ELSE x

hasRole(role, minRole) == OrElse(ROLE_RANK(role), 0) >= OrElse(ROLE_RANK(minRole), 999)

\* ------------------------------------------------------------------------
\* Identifiers
\* ------------------------------------------------------------------------
MaxIdLen == 128

\* the characters the store forbids in a path: . # $ [ ] /
RTDB_FORBIDDEN_CHARS == {".", "#", "$", "[", "]", "/"}

RTDB_FORBIDDEN(s) == \E i \in 1..Len(s) : s[i] \in RTDB_FORBIDDEN_CHARS

UidA == <<"a">>
UidB == <<"b">>
TenantT == <<"t">>

Uids == {UidA, UidB}
Tenants == {TenantT}

\* ------------------------------------------------------------------------
\* State
\* ------------------------------------------------------------------------
VARIABLES
    now,        \* Date.now(), in ms
    env,        \* process.env: isProd (NODE_ENV === "production"), bootstrapEnabled,
                \* cronSecret (CRON_SECRET), tabitKey (TABIT_API_KEY is set)
    members,    \* tenants/{t}/members/{uid}
    roles,      \* tenants/{t}/roles/{uid}
    audit,      \* tenants/{t}/audit/roles: the set of entries written
    lock,       \* tenants/{t}/analytics/_lock/backfill
    buckets,    \* _buckets: the in-process rate windows of one process
    rate,       \* the caller of isRateLimited observed by the rate-window claims
    calls,      \* requireTenantAccess calls in flight
    boot,       \* bootstrap-owner requests
    upd,        \* admin-roles (UpdateRole) requests
    bf,         \* analytics backfill requests
    daily,      \* tenants/{t}/analytics/daily/main/{date}
    sb,         \* daily-builder (ScheduledBuilder) requests
    rd,         \* requests of the gated reads: beecomm, tabit, analytics check
    orefApi     \* api/oref.js in one process: _cache, its requests, the fetches made

vars == <<now, env, members, roles, audit, lock, buckets, rate, calls, boot, upd, bf,
          daily, sb, rd, orefApi>>

\* ------------------------------------------------------------------------
\* Rate limiter (lib/helpers.js)
\* ------------------------------------------------------------------------
\* an absent entry of the _buckets Map
NoBucket == [count |-> 0, resetAt |-> 0, present |-> FALSE]

Bucket(c, r) == [count |-> c, resetAt |-> r, present |-> TRUE]

\* the branch of inMemoryIncr that opens a new window
inMemoryFreshNever(rec, t) == ~rec.present

inMemoryFresh(rec, t) == ~rec.present \/ t > rec.resetAt

\* the record inMemoryIncr leaves in the Map for the key
inMemoryRec(rec, windowMs, t) ==
    IF inMemoryFresh(rec, t)
    THEN Bucket(1, t + windowMs)
    ELSE Bucket(rec.count + 1, rec.resetAt)

\* inMemoryIncr(key, windowMs): the count returned, and the Map afterwards
inMemoryIncrCount(b, key, windowMs, t) == inMemoryRec(b[key], windowMs, t).count

inMemoryIncrMap(b, key, windowMs, t) == [b EXCEPT ![key] = inMemoryRec(b[key], windowMs, t)]

\* what upstashIncr can resolve to: null (no configuration, or a non-success
\* response), or the counter value the pipeline returns; "throw" is a fetch
\* that rejects
UpNull == [kind |-> "null", n |-> 0]
UpCount(n) == [kind |-> "count", n |-> n]
UpThrow == [kind |-> "throw", n |-> 0]

\* Math.ceil(windowMs / 1000)
windowSecOf(windowMs) == (windowMs + 999) \div 1000

\* a pipeline whose EXPIRE has no NX: every hit sets the expiry again
upstashPipelineAlways(rec, windowSec, t) ==
    LET live == rec.present /\ t < rec.resetAt
    IN  Bucket((IF live THEN rec.count ELSE 0) + 1, t + windowSec * 1000)

\* the pipeline [INCR key, EXPIRE key windowSec NX] on the counter the backend
\* keeps for the key, at time t: a counter whose expiry has passed is gone,
\* INCR counts from it or from 0, and EXPIRE ... NX sets the expiry only of a
\* counter that has none, which is the one INCR has just created
upstashPipeline(rec, windowSec, t) ==
    LET live == rec.present /\ t < rec.resetAt
    IN  IF live
        THEN Bucket(rec.count + 1, rec.resetAt)
        ELSE Bucket(1, t + windowSec * 1000)

\* count > limit
OverLimit(count, limit) == count > limit

\* isRateLimited(key, limit, windowMs) with upstashIncr resolving to up.
\* thrown: "none" for a normal return of `limited`, "unavailable" for the
\* thrown { status: 503, msg: "rate limiter unavailable" }, "fetch" for the
\* rejection of fetch, which isRateLimited does not catch.
\* memory: whether inMemoryIncr ran.
isRateLimited(b, prod, up, key, limit, windowMs, t) ==
    CASE up.kind = "throw" ->
            [thrown |-> "fetch", limited |-> FALSE, map |-> b, memory |-> FALSE]
      [] up.kind = "null" /\ prod ->
            [thrown |-> "unavailable", limited |-> FALSE, map |-> b, memory |-> FALSE]
      [] up.kind = "null" /\ ~prod ->
            [thrown |-> "none",
             limited |-> OverLimit(inMemoryIncrCount(b, key, windowMs, t), limit),
             map |-> inMemoryIncrMap(b, key, windowMs, t),
             memory |-> TRUE]
      [] OTHER ->
            [thrown |-> "none", limited |-> OverLimit(up.n, limit), map |-> b, memory |-> FALSE]

\* the keys of _buckets: a prefix and an ip or uid
Ips == {<<"i">>}
TestKeys == {<<"test", <<"k">>>>, <<"test", <<"m">>>>}
BucketKeys ==
    ({"bootstrap:uid", "roles:uid", "backfill:uid", "check:uid"} \X Uids)
    \cup ({"bootstrap:ip", "roles:ip", "backfill:ip", "check:ip"} \X Ips)
    \cup TestKeys

UpOutcomes == {UpNull, UpThrow} \cup {UpCount(n) : n \in {1, MaxLimit + 1}}

\* the same for the handlers, whose limits go up to 5
HandlerUps == {UpNull, UpThrow, UpCount(1), UpCount(5 + 1)}

\* ------------------------------------------------------------------------
\* Initial values shared by the specifications
\* ------------------------------------------------------------------------
RateWindows == {1000, 2000}

\* the observer of the rate-window claims: per key, the window the calls on the
\* in-process counter are in (its first hit, the hits since, the windows so far);
\* of the latest call: how upstashIncr ended ("null", "throw", "count"), what
\* isRateLimited did, and whether it left _buckets as it was; redis: the
\* counters the backend keeps for the keys "rl:" + key
NoHist == [open |-> FALSE, start |-> 0, n |-> 0, wins |-> 0, over |-> FALSE]

RateIdle == [limit |-> 1, windowMs |-> 1000, hits |-> 0, hist |-> [k \in TestKeys |-> NoHist],
             last |-> [key |-> <<"test", <<"k">>>>, thrown |-> "none", limited |-> FALSE,
                       memory |-> FALSE, called |-> FALSE, backend |-> "none", same |-> TRUE],
             redis |-> [k \in TestKeys |-> NoBucket]]

EmptyStore == [t \in Tenants |-> [u \in Uids |-> JNull]]

EmptyMap == [u \in Uids |-> JNull]

CallIds == 1..NumCalls
BootIds == 1..NumBoot
UpdIds == 1..NumUpd
BfIds == 1..NumBackfill

\* a requireTenantAccess call that has not started; status 0: nothing thrown
CallIdle == [pc |-> "idle", uid |-> JNull, tenantId |-> JNull, minRole |-> JNull,
             memberVal |-> JNull, role |-> JNull, status |-> 0, msg |-> "", ret |-> JNull,
             failed |-> "none", reads |-> 0]

\* a request that has not arrived; status 0: no response sent yet
NoView == [u \in Uids |-> JNum(0)]

\* asked: the uid of the body of a request rejected on its body
BootIdle == [pc |-> "idle", caller |-> UidA, uid |-> UidA, tenantId |-> TenantT,
             status |-> 0, view |-> NoView, asked |-> JNull]

UpdIdle == [pc |-> "idle", caller |-> UidA, tenantId |-> TenantT, targetUid |-> UidA,
            role |-> JNull, status |-> 0, view |-> NoView, txAbortReason |-> "none",
            rta |-> JNull]

\* a request slot a specification leaves unused
BootAbsent == [BootIdle EXCEPT !.pc = "absent"]

\* a finished request: only its response status (and, for UpdateRole, why its
\* transaction aborted) outlives the invocation
BootDone(status) == [BootIdle EXCEPT !.pc = "done", !.status = status]

UpdDone(status, reason) == [UpdIdle EXCEPT !.pc = "done", !.status = status, !.txAbortReason = reason]

UpdAbsent == [UpdIdle EXCEPT !.pc = "absent"]

NoLock == [lockId |-> 0, expiresAt |-> 0, present |-> FALSE]

\* no build made yet
NoBuild == [up |-> <<>>, res |-> <<>>, wrote |-> FALSE, calls |-> <<>>]

\* from: the first date of the range; rta: the role requireTenantAccess
\* returned on; built and skipped: results.built and results.skipped; last:
\* the answers and the outcome of its latest build
BfIdle == [pc |-> "idle", caller |-> UidA, tenantId |-> TenantT, from |-> 0, ndates |-> 0,
           idx |-> 0, rta |-> JNull, status |-> 0, view |-> NoLock, lockId |-> 0,
           expiresAt |-> 0, released |-> FALSE, built |-> <<>>, skipped |-> <<>>,
           logged |-> "none", last |-> NoBuild]

\* the tenants a builder knows: TenantT, and a second tenant of which only
\* the analytics documents are kept here
TenantU == <<"u">>
AllTenants == Tenants \cup {TenantU}
\* no document stored for any date
NoDocs == [t \in AllTenants |-> <<>>]

SbIds == 1..NumSched
RdIds == 1..NumRead

\* a ScheduledBuilder request: the secret it supplied, its date, the tenant
\* keys it read, results.built and results.skipped, whether it read the
\* tenant list, and the answers and the outcome of its latest build
SbIdle == [pc |-> "idle", incoming |-> <<>>, date |-> 0, tenants |-> <<>>, idx |-> 0,
           status |-> 0, built |-> <<>>, skipped |-> <<>>, listed |-> FALSE,
           last |-> NoBuild]
BfAbsent == [BfIdle EXCEPT !.pc = "absent"]

\* a request of one of the gated reads
RdIdle == [pc |-> "idle", op |-> "beecomm", caller |-> UidA, tenantId |-> TenantT,
           path |-> "", date |-> [fmt |-> FALSE, day |-> 0], rta |-> JNull,
           status |-> 0, called |-> FALSE, fresh |-> JNull, checksum |-> JNull]
RdAbsent == [RdIdle EXCEPT !.pc = "absent"]

\* the public alert endpoint (api/oref.js) in one process. version: "edge"
\* or "node", the two handlers the file holds. cache: the module variable
\* _cache. fetches: the times at which fetch(UPSTREAM) was called, kept for
\* the claims
OrefIds == 1..NumOref
NoCache == [present |-> FALSE, body |-> "", expiresAt |-> 0]
OrefReqIdle == [pc |-> "idle", status |-> 0, xcache |-> "", body |-> ""]
OrefIdle(version) ==
    [version |-> version, cache |-> NoCache, reqs |-> [r \in OrefIds |-> OrefReqIdle],
     fetches |-> <<>>]
OrefOff == [OrefIdle("node") EXCEPT !.reqs = [r \in OrefIds |-> [OrefReqIdle EXCEPT !.pc = "absent"]]]

InitRest ==
    /\ now = 0
    /\ audit = [t \in Tenants |-> {}]
    /\ lock = [t \in Tenants |-> NoLock]
    /\ buckets = [k \in BucketKeys |-> NoBucket]
    /\ daily = NoDocs
    /\ sb = [r \in SbIds |-> SbIdle]
    /\ rd = [r \in RdIds |-> RdIdle]
    /\ orefApi = OrefOff

\* ------------------------------------------------------------------------
\* SpecRate: one process calling isRateLimited with a fixed limit and window
\* ------------------------------------------------------------------------
HistAfter(h, windowMs, t) ==
    IF ~h.open \/ t > h.start + windowMs
    THEN [open |-> TRUE, start |-> t, n |-> 1, wins |-> h.wins + 1, over |-> h.over]
    ELSE [h EXCEPT !.n = h.n + 1]

RateCall(k, up) ==
    /\ rate.hits < MaxHits
    /\ LET r == isRateLimited(buckets, env.isProd, up, k, rate.limit, rate.windowMs, now)
           h == IF r.memory THEN HistAfter(rate.hist[k], rate.windowMs, now) ELSE rate.hist[k]
       IN /\ buckets' = r.map
          /\ rate' = [rate EXCEPT
                !.hits = rate.hits + 1,
                !.hist[k] = [h EXCEPT !.over = h.over \/ (r.memory /\ r.limited)],
                !.last = [key |-> k, thrown |-> r.thrown, limited |-> r.limited,
                          memory |-> r.memory, called |-> TRUE, backend |-> up.kind,
                          same |-> r.map = buckets]]
    /\ UNCHANGED <<now, env, members, roles, audit, lock, calls, boot, upd, bf, daily, sb, rd,
                   orefApi>>

\* isRateLimited(k, limit, windowMs) with the backend configured and up: the
\* pipeline runs on the backend's counter and upstashIncr resolves to the
\* result of its INCR
RateCallRedis(k) ==
    /\ rate.hits < MaxHits
    /\ LET rec == upstashPipeline(rate.redis[k], windowSecOf(rate.windowMs), now)
           r == isRateLimited(buckets, env.isProd, UpCount(rec.count), k, rate.limit,
                              rate.windowMs, now)
       IN /\ buckets' = r.map
          /\ rate' = [rate EXCEPT
                !.hits = rate.hits + 1,
                !.redis[k] = rec,
                !.last = [key |-> k, thrown |-> r.thrown, limited |-> r.limited,
                          memory |-> r.memory, called |-> TRUE, backend |-> "count",
                          same |-> r.map = buckets]]
    /\ UNCHANGED <<now, env, members, roles, audit, lock, calls, boot, upd, bf, daily, sb, rd,
                   orefApi>>

RateTick ==
    /\ now < MaxTicks * (rate.windowMs \div 2)
    /\ now' = now + (rate.windowMs \div 2)
    /\ UNCHANGED <<env, members, roles, audit, lock, buckets, rate, calls, boot, upd, bf, daily, sb, rd,
                   orefApi>>

\* ------------------------------------------------------------------------
\* requireTenantAccess (lib/helpers.js)
\* ------------------------------------------------------------------------
\* !id || typeof id !== "string" || id.length > 128
BadId(id) == Falsy(id) \/ id.t # "str" \/ Len(id.v) > MaxIdLen

\* an input validation that accepts any minRole
rtaValidateAnyMinRole(uid, tenantId, minRole) ==
    CASE BadId(uid) -> [status |-> 400, msg |-> "invalid uid"]
      [] BadId(tenantId) -> [status |-> 400, msg |-> "invalid tenantId"]
      [] RTDB_FORBIDDEN(uid.v) \/ RTDB_FORBIDDEN(tenantId.v) ->
            [status |-> 400, msg |-> "invalid characters in id"]
      [] OTHER -> [status |-> 0, msg |-> ""]

\* the input validation: the thrown status and message, status 0 when it passes
rtaValidate(uid, tenantId, minRole) ==
    CASE BadId(uid) -> [status |-> 400, msg |-> "invalid uid"]
      [] BadId(tenantId) -> [status |-> 400, msg |-> "invalid tenantId"]
      [] minRole \notin VALID_ROLES -> [status |-> 400, msg |-> "invalid minRole"]
      [] RTDB_FORBIDDEN(uid.v) \/ RTDB_FORBIDDEN(tenantId.v) ->
            [status |-> 400, msg |-> "invalid characters in id"]
      [] OTHER -> [status |-> 0, msg |-> ""]

\* how a store read raced against its 3 s timer ends: the value arrives, the
\* read rejects, or the timer fires first
ReadOutcomes == {"value", "error", "timeout"}

\* the membership check on the outcome of the read and the value read
rtaMemberTruthy(outcome, memberVal) ==
    CASE outcome # "value" -> [status |-> 503, msg |-> "authorization check unavailable"]
      [] Falsy(memberVal) -> [status |-> 403, msg |-> "not a tenant member"]
      [] OTHER -> [status |-> 0, msg |-> ""]

rtaMember(outcome, memberVal) ==
    CASE outcome # "value" -> [status |-> 503, msg |-> "authorization check unavailable"]
      [] memberVal # JTrue -> [status |-> 403, msg |-> "not a tenant member"]
      [] OTHER -> [status |-> 0, msg |-> ""]

\* the role check on the outcome of the read, the role read and minRole
rtaRoleFailOpen(outcome, role, minRole) ==
    CASE outcome # "value" -> [status |-> 0, msg |-> ""]
      [] role.t # "str" \/ role \notin VALID_ROLES ->
            [status |-> 403, msg |-> "no valid role assigned"]
      [] ~hasRole(role, minRole) -> [status |-> 403, msg |-> "insufficient role"]
      [] OTHER -> [status |-> 0, msg |-> ""]

rtaRole(outcome, role, minRole) ==
    CASE outcome # "value" -> [status |-> 503, msg |-> "authorization check unavailable"]
      [] role.t # "str" \/ role \notin VALID_ROLES ->
            [status |-> 403, msg |-> "no valid role assigned"]
      [] ~hasRole(role, minRole) -> [status |-> 403, msg |-> "insufficient role"]
      [] OTHER -> [status |-> 0, msg |-> ""]

\* identifiers and roles a caller can pass
LongId == [i \in 1..(MaxIdLen + 1) |-> "a"]
UidInputs == {JStr(u) : u \in Uids} \cup {JNull, JStr(<<>>), JNum(7), JStr(<<"a", "/", "b">>), JStr(LongId)}
TenantInputs == {JStr(t) : t \in Tenants} \cup {JNull, JStr(<<"t", ".">>)}
MinRoleInputs == VALID_ROLES \cup {RAdmin, JNull}

RtaStart(c, uid, tenantId, minRole) ==
    /\ calls[c].pc = "idle"
    /\ LET v == rtaValidate(uid, tenantId, minRole)
       IN calls' = [calls EXCEPT ![c] =
            [@ EXCEPT !.uid = uid, !.tenantId = tenantId, !.minRole = minRole,
                      !.status = v.status, !.msg = v.msg,
                      !.pc = IF v.status = 0 THEN "member" ELSE "done"]]
    /\ UNCHANGED <<now, env, members, roles, audit, lock, buckets, rate, boot, upd, bf, daily, sb, rd,
                   orefApi>>

RtaMemberRead(c, outcome) ==
    /\ calls[c].pc = "member"
    /\ LET val == IF outcome = "value"
                  THEN members[calls[c].tenantId.v][calls[c].uid.v] ELSE JNull
           v == rtaMember(outcome, val)
       IN calls' = [calls EXCEPT ![c] =
            [@ EXCEPT !.memberVal = val, !.status = v.status, !.msg = v.msg,
                      !.reads = @ + 1,
                      !.failed = IF outcome = "value" THEN @ ELSE "member",
                      !.pc = IF v.status = 0 THEN "role" ELSE "done"]]
    /\ UNCHANGED <<now, env, members, roles, audit, lock, buckets, rate, boot, upd, bf, daily, sb, rd,
                   orefApi>>

\* a role check that decides on the role the caller asks for, not on a read
\* of the store
RtaRoleReadPresented(c, outcome) ==
    /\ calls[c].pc = "role"
    /\ LET val == IF outcome = "value" THEN calls[c].minRole ELSE JNull
           v == rtaRole(outcome, val, calls[c].minRole)
       IN calls' = [calls EXCEPT ![c] =
            [@ EXCEPT !.role = val, !.status = v.status, !.msg = v.msg,
                      !.reads = @ + 1,
                      !.failed = IF outcome = "value" THEN @ ELSE "role",
                      !.ret = IF v.status = 0 THEN val ELSE JNull,
                      !.pc = "done"]]
    /\ UNCHANGED <<now, env, members, roles, audit, lock, buckets, rate, boot, upd, bf, daily, sb, rd,
                   orefApi>>

RtaRoleRead(c, outcome) ==
    /\ calls[c].pc = "role"
    /\ LET val == IF outcome = "value"
                  THEN roles[calls[c].tenantId.v][calls[c].uid.v] ELSE JNull
           v == rtaRole(outcome, val, calls[c].minRole)
       IN calls' = [calls EXCEPT ![c] =
            [@ EXCEPT !.role = val, !.status = v.status, !.msg = v.msg,
                      !.reads = @ + 1,
                      !.failed = IF outcome = "value" THEN @ ELSE "role",
                      !.ret = IF v.status = 0 THEN val ELSE JNull,
                      !.pc = "done"]]
    /\ UNCHANGED <<now, env, members, roles, audit, lock, buckets, rate, boot, upd, bf, daily, sb, rd,
                   orefApi>>

\* ------------------------------------------------------------------------
\* What the request handlers share
\* ------------------------------------------------------------------------
\* requireAuth(req): the verified uid, or a rejection
AuthOutcomes == {[ok |-> TRUE, uid |-> u] : u \in Uids} \cup {[ok |-> FALSE, uid |-> UidA]}

\* the two rate-limit checks at the head of a handler (per ip, then per uid),
\* both inside one try: status 0 when both pass, 429 when one limits, and
\* e.status || 503 when isRateLimited throws; map is _buckets afterwards.
\* The second check runs only when the first has passed.
RateGate(b, prod, up1, up2, prefix, ip, uid, ipLimit, uidLimit, t) ==
    LET r1 == isRateLimited(b, prod, up1, <<prefix \o ":ip", ip>>, ipLimit, 60000, t)
        r2 == isRateLimited(r1.map, prod, up2, <<prefix \o ":uid", uid>>, uidLimit, 60000, t)
    IN CASE r1.thrown # "none" -> [status |-> 503, map |-> r1.map]
         [] r1.limited -> [status |-> 429, map |-> r1.map]
         [] r2.thrown # "none" -> [status |-> 503, map |-> r2.map]
         [] r2.limited -> [status |-> 429, map |-> r2.map]
         [] OTHER -> [status |-> 0, map |-> r2.map]

\* the value a transaction's update function is first run on: the client's
\* cached value of the path, which is null when nothing is cached
FirstViews(stored, empty) == {stored, empty}

\* Object.values(roles).filter(r => r === "owner"), by key
OwnersOf(rolemap) == {u \in Uids : rolemap[u] = ROwner}

\* ------------------------------------------------------------------------
\* POST /api/admin-roles (UpdateRole)
\* ------------------------------------------------------------------------
\* validation of the body { tenantId, targetUid, role }
updValidate(tenantId, targetUid, role) ==
    CASE BadId(tenantId) -> [status |-> 400]
      [] BadId(targetUid) -> [status |-> 400]
      [] role # JNull /\ role \notin VALID_ROLES -> [status |-> 400]
      [] RTDB_FORBIDDEN(tenantId.v) \/ RTDB_FORBIDDEN(targetUid.v) ->
            [status |-> 400]
      [] OTHER -> [status |-> 0]

\* the abort condition of the role transaction
updAbortNever(rolemap, targetUid) == FALSE

updAbort(rolemap, targetUid) ==
    Cardinality(OwnersOf(rolemap)) = 1 /\ OwnersOf(rolemap) = {targetUid}

\* the value the role transaction proposes: the target deleted or reassigned
updProposeAll(rolemap, targetUid, role) == [u \in Uids |-> role]

updPropose(rolemap, targetUid, role) == [rolemap EXCEPT ![targetUid] = role]

UpdRoleInputs == {JNull, ROwner, RViewer, RAdmin}
Methods == {"POST", "GET"}

\* requests are numbered in their order of arrival
UpdArrived(r) == IF r = 1 THEN TRUE ELSE upd[r - 1].pc # "idle"

\* method, auth and the two rate-limit checks
UpdArrive(r, method, auth, up1, up2) ==
    /\ upd[r].pc = "idle"
    /\ UpdArrived(r)
    /\ LET gate == RateGate(buckets, env.isProd, up1, up2, "roles", <<"i">>, auth.uid, 5, 5, now)
           end == CASE method # "POST" -> [status |-> 405]
                    [] ~auth.ok -> [status |-> 401]
                    [] OTHER -> [status |-> gate.status]
       IN /\ buckets' = IF method = "POST" /\ auth.ok THEN gate.map ELSE buckets
          /\ upd' = [upd EXCEPT ![r] =
                IF end.status # 0
                THEN UpdDone(end.status, "none")
                ELSE [@ EXCEPT !.pc = "body", !.caller = auth.uid]]
    /\ UNCHANGED <<now, env, members, roles, audit, lock, rate, calls, boot, bf, daily, sb, rd,
                   orefApi>>

\* body validation, and the input validation of
\* requireTenantAccess(claims.uid, tenantId, "owner")
UpdBody(r, tenantId, targetUid, role) ==
    /\ upd[r].pc = "body"
    /\ LET v == updValidate(tenantId, targetUid, role)
           a == rtaValidate(JStr(upd[r].caller), tenantId, ROwner)
           end == IF v.status # 0 THEN v ELSE a
       IN upd' = [upd EXCEPT ![r] =
                IF end.status # 0
                THEN UpdDone(end.status, "none")
                ELSE [@ EXCEPT !.pc = "rta_member", !.tenantId = tenantId.v,
                               !.targetUid = targetUid.v, !.role = role]]
    /\ UNCHANGED <<now, env, members, roles, audit, lock, buckets, rate, calls, boot, bf, daily, sb, rd,
                   orefApi>>

\* requireTenantAccess: the membership read
UpdMemberRead(r, outcome) ==
    /\ upd[r].pc = "rta_member"
    /\ LET val == IF outcome = "value" THEN members[upd[r].tenantId][upd[r].caller] ELSE JNull
           v == rtaMember(outcome, val)
       IN upd' = [upd EXCEPT ![r] =
            IF v.status = 0 THEN [@ EXCEPT !.pc = "rta_role"] ELSE UpdDone(v.status, "none")]
    /\ UNCHANGED <<now, env, members, roles, audit, lock, buckets, rate, calls, boot, bf, daily, sb, rd,
                   orefApi>>

\* requireTenantAccess: the role read; on success the handler goes on to the
\* role transaction (role !== "owner") or to the plain write
UpdRoleRead(r, outcome, first) ==
    /\ upd[r].pc = "rta_role"
    /\ first \in FirstViews(roles[upd[r].tenantId], EmptyMap)
    /\ LET val == IF outcome = "value" THEN roles[upd[r].tenantId][upd[r].caller] ELSE JNull
           v == rtaRole(outcome, val, ROwner)
       IN upd' = [upd EXCEPT ![r] =
            IF v.status # 0
            THEN UpdDone(v.status, "none")
            ELSE IF upd[r].role # ROwner
            THEN [@ EXCEPT !.pc = "tx_run", !.view = first, !.rta = val]
            ELSE [@ EXCEPT !.pc = "set", !.rta = val]]
    /\ UNCHANGED <<now, env, members, roles, audit, lock, buckets, rate, calls, boot, bf, daily, sb, rd,
                   orefApi>>

\* a handler that writes the audit entry of a change it then refuses
UpdTxRunAudited(r) ==
    /\ upd[r].pc = "tx_run"
    /\ IF updAbort(upd[r].view, upd[r].targetUid)
       THEN /\ upd' = [upd EXCEPT ![r] = UpdDone(409, "last-owner")]
            /\ audit' = [audit EXCEPT ![upd[r].tenantId] = @ \cup
                        {[key |-> <<"roles", r>>, actorUid |-> upd[r].caller,
                          targetUid |-> upd[r].targetUid,
                          role |-> IF upd[r].role = JNull THEN RRemoved ELSE upd[r].role,
                          note |-> ""]}]
       ELSE /\ upd' = [upd EXCEPT ![r] = [@ EXCEPT !.pc = "tx_send"]]
            /\ UNCHANGED audit
    /\ UNCHANGED <<now, env, members, roles, lock, buckets, rate, calls, boot, bf, daily, sb, rd,
                   orefApi>>

\* the update function runs on the client's view: abort, or a value to send
UpdTxRun(r) ==
    /\ upd[r].pc = "tx_run"
    /\ upd' = [upd EXCEPT ![r] =
            IF updAbort(upd[r].view, upd[r].targetUid)
            THEN UpdDone(409, "last-owner")
            ELSE [@ EXCEPT !.pc = "tx_send"]]
    /\ UNCHANGED <<now, env, members, roles, audit, lock, buckets, rate, calls, boot, bf, daily, sb, rd,
                   orefApi>>

\* the store commits the proposed value if the path still holds the view, else
\* it hands back the current value and the update function runs again
UpdTxSend(r) ==
    /\ upd[r].pc = "tx_send"
    /\ LET t == upd[r].tenantId
       IN IF roles[t] = upd[r].view
          THEN /\ roles' = [roles EXCEPT ![t] = updPropose(upd[r].view, upd[r].targetUid, upd[r].role)]
               /\ upd' = [upd EXCEPT ![r] = [@ EXCEPT !.pc = "side", !.view = NoView]]
          ELSE /\ upd' = [upd EXCEPT ![r] = [@ EXCEPT !.pc = "tx_run", !.view = roles[t]]]
               /\ UNCHANGED roles
    /\ UNCHANGED <<now, env, members, audit, lock, buckets, rate, calls, boot, bf, daily, sb, rd,
                   orefApi>>

\* the transaction rejects (txError)
UpdTxError(r) ==
    /\ upd[r].pc \in {"tx_run", "tx_send"}
    /\ upd' = [upd EXCEPT ![r] = UpdDone(503, "none")]
    /\ UNCHANGED <<now, env, members, roles, audit, lock, buckets, rate, calls, boot, bf, daily, sb, rd,
                   orefApi>>

\* role === "owner": db.ref(roles/targetUid).set(role), which can reject
UpdSet(r, ok) ==
    /\ upd[r].pc = "set"
    /\ IF ok
       THEN /\ roles' = [roles EXCEPT ![upd[r].tenantId][upd[r].targetUid] = upd[r].role]
            /\ upd' = [upd EXCEPT ![r] = [@ EXCEPT !.pc = "side"]]
       ELSE /\ upd' = [upd EXCEPT ![r] = UpdDone(502, "none")]
            /\ UNCHANGED roles
    /\ UNCHANGED <<now, env, members, audit, lock, buckets, rate, calls, boot, bf, daily, sb, rd,
                   orefApi>>

\* a follow-up write whose failure takes the role entry back and fails the
\* request
UpdSideUndo(r, ok) ==
    /\ upd[r].pc = "side"
    /\ LET t == upd[r].tenantId
       IN IF ok
          THEN /\ members' = [members EXCEPT ![t][upd[r].targetUid] =
                        IF upd[r].role = JNull THEN JNull ELSE JTrue]
               /\ audit' = [audit EXCEPT ![t] = @ \cup
                        {[key |-> <<"roles", r>>, actorUid |-> upd[r].caller,
                          targetUid |-> upd[r].targetUid,
                          role |-> IF upd[r].role = JNull THEN RRemoved ELSE upd[r].role,
                          note |-> ""]}]
               /\ upd' = [upd EXCEPT ![r] = UpdDone(200, "none")]
               /\ UNCHANGED roles
          ELSE /\ roles' = [roles EXCEPT ![t][upd[r].targetUid] = JNull]
               /\ upd' = [upd EXCEPT ![r] = UpdDone(502, "none")]
               /\ UNCHANGED <<members, audit>>
    /\ UNCHANGED <<now, env, lock, buckets, rate, calls, boot, bf, daily, sb, rd, orefApi>>

\* the membership flag and the audit entry in one multi-path update, whose
\* failure is only logged; then the 200 response
UpdSide(r, ok) ==
    /\ upd[r].pc = "side"
    /\ LET t == upd[r].tenantId
       IN IF ok
          THEN /\ members' = [members EXCEPT ![t][upd[r].targetUid] =
                        IF upd[r].role = JNull THEN JNull ELSE JTrue]
               /\ audit' = [audit EXCEPT ![t] = @ \cup
                        {[key |-> <<"roles", r>>, actorUid |-> upd[r].caller,
                          targetUid |-> upd[r].targetUid,
                          role |-> IF upd[r].role = JNull THEN RRemoved ELSE upd[r].role,
                          note |-> ""]}]
          ELSE UNCHANGED <<members, audit>>
    /\ upd' = [upd EXCEPT ![r] = UpdDone(200, "none")]
    /\ UNCHANGED <<now, env, roles, lock, buckets, rate, calls, boot, bf, daily, sb, rd, orefApi>>

\* the steps of the UpdateRole requests, for inputs drawn from the given sets
UpdSteps(methods, auths, ups, tenantIds, uids, roleIns, outcomes) ==
    \/ \E r \in UpdIds, method \in methods, auth \in auths, up1 \in ups, up2 \in ups :
            UpdArrive(r, method, auth, up1, up2)
    \/ \E r \in UpdIds, tenantId \in tenantIds, targetUid \in uids, role \in roleIns :
            UpdBody(r, tenantId, targetUid, role)
    \/ \E r \in UpdIds, outcome \in outcomes : UpdMemberRead(r, outcome)
    \/ \E r \in UpdIds, outcome \in outcomes, first \in {EmptyMap} \cup {roles[t] : t \in Tenants} :
            UpdRoleRead(r, outcome, first)
    \/ \E r \in UpdIds : UpdTxRun(r)
    \/ \E r \in UpdIds : UpdTxSend(r)
    \/ \E r \in UpdIds : UpdTxError(r)
    \/ \E r \in UpdIds, ok \in BOOLEAN : UpdSet(r, ok)
    \/ \E r \in UpdIds, ok \in BOOLEAN : UpdSide(r, ok)

\* ------------------------------------------------------------------------
\* POST /api/bootstrap-owner (Bootstrap)
\* ------------------------------------------------------------------------
\* validation of the body { tenantId, uid }
bootValidate(tenantId, uid) ==
    CASE BadId(tenantId) -> [status |-> 400]
      [] BadId(uid) -> [status |-> 400]
      [] RTDB_FORBIDDEN(tenantId.v) \/ RTDB_FORBIDDEN(uid.v) ->
            [status |-> 400]
      [] OTHER -> [status |-> 0]

\* the abort condition of the bootstrap transaction: an owner exists
bootAbortNever(rolemap) == FALSE

bootAbort(rolemap) == Cardinality(OwnersOf(rolemap)) > 0

\* the value the bootstrap transaction proposes
bootPropose(rolemap, uid) == [rolemap EXCEPT ![uid] = ROwner]

BootArrived(b) == IF b = 1 THEN TRUE ELSE boot[b - 1].pc # "idle"

\* the head of the handler with the feature flag looked at last
bootPreambleFlagLast(enabled, method, authOk, gateStatus) ==
    CASE method # "POST" -> 405
      [] ~authOk -> 401
      [] gateStatus # 0 -> gateStatus
      [] ~enabled -> 404
      [] OTHER -> 0

\* the head of the handler: the feature flag, the method, requireAuth, then
\* the rate limit, whose status is gateStatus
bootPreamble(enabled, method, authOk, gateStatus) ==
    CASE ~enabled -> 404
      [] method # "POST" -> 405
      [] ~authOk -> 401
      [] OTHER -> gateStatus

\* feature flag, method, auth and the two rate-limit checks
BootArrive(b, method, auth, up1, up2) ==
    /\ boot[b].pc = "idle"
    /\ BootArrived(b)
    /\ LET gate == RateGate(buckets, env.isProd, up1, up2, "bootstrap", <<"i">>, auth.uid, 3, 2, now)
           end == [status |-> bootPreamble(env.bootstrapEnabled, method, auth.ok, gate.status)]
       IN /\ buckets' = IF end.status \in {404, 405, 401} THEN buckets ELSE gate.map
          /\ boot' = [boot EXCEPT ![b] =
                IF end.status # 0
                THEN BootDone(end.status)
                ELSE [@ EXCEPT !.pc = "body", !.caller = auth.uid]]
    /\ UNCHANGED <<now, env, members, roles, audit, lock, rate, calls, upd, bf, daily, sb, rd,
                   orefApi>>

\* a handler without the self-bootstrap check
BootBodyAnyUid(b, tenantId, uid, first) ==
    /\ boot[b].pc = "body"
    /\ LET v == bootValidate(tenantId, uid)
       IN IF v.status # 0
          THEN boot' = [boot EXCEPT ![b] =
                    [BootDone(v.status) EXCEPT !.caller = boot[b].caller, !.asked = uid]]
          ELSE /\ first \in FirstViews(roles[tenantId.v], EmptyMap)
               /\ boot' = [boot EXCEPT ![b] =
                    [@ EXCEPT !.pc = "tx_run", !.tenantId = tenantId.v, !.uid = uid.v,
                              !.view = first]]
    /\ UNCHANGED <<now, env, members, roles, audit, lock, buckets, rate, calls, upd, bf, daily, sb, rd,
                   orefApi>>

\* body validation and the self-bootstrap check; then the transaction on the
\* roles node starts on the client's view of it
BootBody(b, tenantId, uid, first) ==
    /\ boot[b].pc = "body"
    /\ LET v == bootValidate(tenantId, uid)
           end == CASE v.status # 0 -> v
                    [] boot[b].caller # uid.v -> [status |-> 403]
                    [] OTHER -> [status |-> 0]
       IN IF end.status # 0
          THEN boot' = [boot EXCEPT ![b] =
                    [BootDone(end.status) EXCEPT !.caller = boot[b].caller, !.asked = uid]]
          ELSE /\ first \in FirstViews(roles[tenantId.v], EmptyMap)
               /\ boot' = [boot EXCEPT ![b] =
                    [@ EXCEPT !.pc = "tx_run", !.tenantId = tenantId.v, !.uid = uid.v,
                              !.view = first]]
    /\ UNCHANGED <<now, env, members, roles, audit, lock, buckets, rate, calls, upd, bf, daily, sb, rd,
                   orefApi>>

\* the update function runs on the client's view: abort, or a value to send
BootTxRun(b) ==
    /\ boot[b].pc = "tx_run"
    /\ boot' = [boot EXCEPT ![b] =
            IF bootAbort(boot[b].view)
            THEN BootDone(409)
            ELSE [@ EXCEPT !.pc = "tx_send"]]
    /\ UNCHANGED <<now, env, members, roles, audit, lock, buckets, rate, calls, upd, bf, daily, sb, rd,
                   orefApi>>

\* the store commits the proposed value if the path still holds the view, else
\* it hands back the current value and the update function runs again
BootTxSend(b) ==
    /\ boot[b].pc = "tx_send"
    /\ LET t == boot[b].tenantId
       IN IF roles[t] = boot[b].view
          THEN /\ roles' = [roles EXCEPT ![t] = bootPropose(boot[b].view, boot[b].uid)]
               /\ boot' = [boot EXCEPT ![b] = [@ EXCEPT !.pc = "side", !.view = NoView]]
          ELSE /\ boot' = [boot EXCEPT ![b] = [@ EXCEPT !.pc = "tx_run", !.view = roles[t]]]
               /\ UNCHANGED roles
    /\ UNCHANGED <<now, env, members, audit, lock, buckets, rate, calls, upd, bf, daily, sb, rd,
                   orefApi>>

\* the transaction rejects (txError)
BootTxError(b) ==
    /\ boot[b].pc \in {"tx_run", "tx_send"}
    /\ boot' = [boot EXCEPT ![b] = BootDone(503)]
    /\ UNCHANGED <<now, env, members, roles, audit, lock, buckets, rate, calls, upd, bf, daily, sb, rd,
                   orefApi>>

\* the membership flag and the audit entry in one multi-path update, whose
\* failure is only logged; then the 200 response
BootSide(b, ok) ==
    /\ boot[b].pc = "side"
    /\ LET t == boot[b].tenantId
       IN IF ok
          THEN /\ members' = [members EXCEPT ![t][boot[b].uid] = JTrue]
               /\ audit' = [audit EXCEPT ![t] = @ \cup
                        {[key |-> <<"bootstrap", b>>, actorUid |-> boot[b].uid,
                          targetUid |-> boot[b].uid, role |-> ROwner, note |-> "bootstrap"]}]
          ELSE UNCHANGED <<members, audit>>
    /\ boot' = [boot EXCEPT ![b] = BootDone(200)]
    /\ UNCHANGED <<now, env, roles, lock, buckets, rate, calls, upd, bf, daily, sb, rd, orefApi>>

\* the steps of the Bootstrap requests, for inputs drawn from the given sets
BootSteps(methods, auths, ups, tenantIds, uids) ==
    \/ \E b \in BootIds, method \in methods, auth \in auths, up1 \in ups, up2 \in ups :
            BootArrive(b, method, auth, up1, up2)
    \/ \E b \in BootIds, tenantId \in tenantIds, uid \in uids,
          first \in {EmptyMap} \cup {roles[t] : t \in Tenants} :
            BootBody(b, tenantId, uid, first)
    \/ \E b \in BootIds : BootTxRun(b)
    \/ \E b \in BootIds : BootTxSend(b)
    \/ \E b \in BootIds : BootTxError(b)
    \/ \E b \in BootIds, ok \in BOOLEAN : BootSide(b, ok)

\* ------------------------------------------------------------------------
\* Analytics sources (sources.js) and buildDailyDoc
\* ------------------------------------------------------------------------
\* a ?? b (undefined and null are both JNull here)
Nullish(a, b) == IF a.t = "null" THEN b ELSE a

\* numOrNull: Number(v) unless v is null, undefined or not a number;
\* Number(true) is 1 and Number("") is 0, and the non-empty strings used here
\* are not numeric
numOrNull(v) ==
    CASE v.t = "num" -> v
      [] v.t = "bool" -> JNum(IF v.v THEN 1 ELSE 0)
      [] v.t = "str" -> IF Len(v.v) = 0 THEN JNum(0) ELSE JNull
      [] OTHER -> JNull

\* how fetchWithTimeout ends: it rejects with the AbortError of its timer
\* ("timeout") or with any other error ("network"), or it resolves with a
\* response that has a status and a body
FetchFail(kind) == [kind |-> kind, status |-> 0, body |-> [t |-> "none"]]
FetchHttp(status, body) == [kind |-> "http", status |-> status, body |-> body]
\* res.ok
resOk(res) == res.status >= 200 /\ res.status <= 299

\* a JSON body that is an object with the fields raw, a JSON array, or
\* a body res.json() cannot parse
JsonObj(raw) == [t |-> "obj", raw |-> raw]
JsonArr == [t |-> "arr"]
BadJson == [t |-> "invalid"]

\* the reason of a structured failure: "network", "timeout" or `http_${status}`
Reason(kind, status) == [kind |-> kind, status |-> status]
\* throw { source, reason }
Thrown(source, reason) == [ok |-> FALSE, source |-> source, reason |-> reason]
\* the SyntaxError of res.json() or the TypeError of a property read on null:
\* an Error with a message and no source
Unstructured == [ok |-> FALSE, source |-> "", reason |-> Reason("message", 0)]
Returned(value) == [ok |-> TRUE, value |-> value]

\* a field of a parsed body; every field of an array is undefined
Field(body, f) == IF body.t = "obj" THEN body.raw[f] ELSE JNull

\* fetchBeecommDaily with a response that passes a failed status on
fetchBeecommDailyAnyStatus(res) ==
    IF res.kind # "http" THEN Thrown("beecomm", Reason(res.kind, 0))
    ELSE IF res.body.t \in {"invalid", "null", "none"} THEN Unstructured
    ELSE Returned([revenue_total |-> numOrNull(Nullish(Field(res.body, "total_sales"),
                                                        Field(res.body, "totalSales"))),
                   tickets |-> numOrNull(Field(res.body, "transaction_count")),
                   revenue_delivery |-> numOrNull(Field(res.body, "delivery_sales")),
                   hourly |-> Nullish(numOrNull(Field(res.body, "hourly")), JNum(0))])

\* fetchBeecommDaily: the required revenue provider. Of the three channel
\* fields the delivery one stands for all, and of the fourteen hourly slots
\* one does; of each pair of alternative keys only total_sales/totalSales
\* is kept
fetchBeecommDaily(res) ==
    IF res.kind # "http" THEN Thrown("beecomm", Reason(res.kind, 0))
    ELSE IF ~resOk(res) THEN Thrown("beecomm", Reason("http_", res.status))
    ELSE IF res.body.t \in {"invalid", "null"} THEN Unstructured
    ELSE Returned([revenue_total |-> numOrNull(Nullish(Field(res.body, "total_sales"),
                                                        Field(res.body, "totalSales"))),
                   tickets |-> numOrNull(Field(res.body, "transaction_count")),
                   revenue_delivery |-> numOrNull(Field(res.body, "delivery_sales")),
                   hourly |-> Nullish(numOrNull(Field(res.body, "hourly")), JNum(0))])

\* fetchTabitHours: null without an API key, on a failed fetch and on a failed
\* status; it rejects only when the body cannot be read
fetchTabitHours(hasKey, res) ==
    IF ~hasKey THEN Returned(JNull)
    ELSE IF res.kind # "http" THEN Returned(JNull)
    ELSE IF ~resOk(res) THEN Returned(JNull)
    ELSE IF res.body.t \in {"invalid", "null"} THEN Unstructured
    ELSE Returned([total_hours |-> numOrNull(Field(res.body, "total_hours"))])

\* fetchWeather
fetchWeather(res) ==
    IF res.kind # "http" THEN Thrown("weather", Reason(res.kind, 0))
    ELSE IF ~resOk(res) THEN Thrown("weather", Reason("http_", res.status))
    ELSE IF res.body.t \in {"invalid", "null"} THEN Unstructured
    ELSE LET rain == Nullish(numOrNull(Field(res.body, "precipitation_sum")), JNum(0))
         IN  Returned([rain_mm |-> rain,
                       is_rain_day |-> rain.v > 1,
                       temp_avg |-> Nullish(numOrNull(Field(res.body, "temperature_2m_mean")),
                                            JNum(0))])

\* fetchOrefAlerts: the body is read once for Array.isArray and, when it is an
\* array, a second time for the alerts; the second res.json() of one response
\* rejects with a TypeError. Every other JSON value counts as no alerts.
fetchOrefAlerts(res) ==
    IF res.kind # "http" THEN Thrown("oref", Reason(res.kind, 0))
    ELSE IF ~resOk(res) THEN Thrown("oref", Reason("http_", res.status))
    ELSE IF res.body.t = "invalid" THEN Unstructured
    ELSE IF res.body.t = "arr" THEN Unstructured
    ELSE Returned([alert_count |-> 0, alert_minutes |-> 0 * 10, is_alert_day |-> 0 > 0])

\* the days from 1970-01-01 to the date y-m-d of the proleptic Gregorian
\* calendar, as Date computes them
daysFromCivil(y, m, d) ==
    LET yy == IF m <= 2 THEN y - 1 ELSE y
        era == yy \div 400
        yoe == yy - era * 400
        mp == IF m > 2 THEN m - 3 ELSE m + 9
        doy == (153 * mp + 2) \div 5 + d - 1
        doe == yoe * 365 + yoe \div 4 - yoe \div 100 + doy
    IN  era * 146097 + doe - 719468

\* a date "YYYY-MM-DD" is counted in days, day 0 being Sunday 2024-09-29
DayOf(y, m, d) == daysFromCivil(y, m, d) - daysFromCivil(2024, 9, 29)

\* getUTCMonth() + 1 of a day
MonthOf(day) ==
    LET z == day + daysFromCivil(2024, 9, 29) + 719468
        era == z \div 146097
        doe == z - era * 146097
        yoe == (doe - doe \div 1460 + doe \div 36524 - doe \div 146096) \div 365
        doy == doe - (365 * yoe + yoe \div 4 - yoe \div 100)
        mp == (5 * doy + 2) \div 153
    IN  IF mp < 10 THEN mp + 3 ELSE mp - 9

\* the holiday dates of 2024, 2025 and 2026
IL_HOLIDAYS ==
    {DayOf(2024, 10, 2), DayOf(2024, 10, 3), DayOf(2024, 10, 11), DayOf(2024, 10, 16),
     DayOf(2024, 10, 17), DayOf(2024, 10, 23), DayOf(2024, 10, 24), DayOf(2024, 12, 25),
     DayOf(2024, 12, 26), DayOf(2024, 12, 27), DayOf(2024, 12, 28), DayOf(2024, 12, 29),
     DayOf(2024, 12, 30), DayOf(2024, 12, 31), DayOf(2025, 1, 1), DayOf(2025, 3, 13),
     DayOf(2025, 3, 14), DayOf(2025, 4, 12), DayOf(2025, 4, 13), DayOf(2025, 4, 14),
     DayOf(2025, 4, 15), DayOf(2025, 4, 16), DayOf(2025, 4, 17), DayOf(2025, 4, 18),
     DayOf(2025, 4, 19), DayOf(2025, 5, 5), DayOf(2025, 5, 12), DayOf(2025, 5, 13),
     DayOf(2025, 5, 16), DayOf(2025, 6, 1), DayOf(2025, 6, 2), DayOf(2025, 8, 3),
     DayOf(2025, 9, 22), DayOf(2025, 9, 23), DayOf(2025, 10, 1), DayOf(2025, 10, 6),
     DayOf(2025, 10, 7), DayOf(2025, 10, 8), DayOf(2025, 10, 9), DayOf(2025, 10, 10),
     DayOf(2025, 10, 11), DayOf(2025, 10, 12), DayOf(2025, 10, 13), DayOf(2025, 10, 14),
     DayOf(2025, 12, 14), DayOf(2025, 12, 15), DayOf(2025, 12, 16), DayOf(2025, 12, 17),
     DayOf(2025, 12, 18), DayOf(2025, 12, 19), DayOf(2025, 12, 20), DayOf(2025, 12, 21),
     DayOf(2026, 3, 2), DayOf(2026, 3, 3), DayOf(2026, 3, 31), DayOf(2026, 4, 1),
     DayOf(2026, 4, 2), DayOf(2026, 4, 3), DayOf(2026, 4, 4), DayOf(2026, 4, 5),
     DayOf(2026, 4, 6), DayOf(2026, 4, 7), DayOf(2026, 4, 20), DayOf(2026, 4, 28),
     DayOf(2026, 4, 29), DayOf(2026, 5, 19), DayOf(2026, 5, 20), DayOf(2026, 7, 23),
     DayOf(2026, 9, 10), DayOf(2026, 9, 11), DayOf(2026, 9, 19), DayOf(2026, 9, 24),
     DayOf(2026, 9, 25), DayOf(2026, 9, 26), DayOf(2026, 9, 27), DayOf(2026, 9, 28),
     DayOf(2026, 9, 29), DayOf(2026, 9, 30), DayOf(2026, 10, 1), DayOf(2026, 10, 2)}

\* the holiday eves
IL_HOLIDAY_EVES ==
    {DayOf(2024, 10, 1), DayOf(2024, 10, 10), DayOf(2024, 10, 15), DayOf(2024, 10, 22),
     DayOf(2025, 3, 12), DayOf(2025, 4, 11), DayOf(2025, 4, 17), DayOf(2025, 5, 11),
     DayOf(2025, 5, 31), DayOf(2025, 8, 2), DayOf(2025, 9, 21), DayOf(2025, 9, 30),
     DayOf(2025, 10, 5), DayOf(2025, 10, 12), DayOf(2026, 3, 1), DayOf(2026, 3, 30),
     DayOf(2026, 4, 5), DayOf(2026, 4, 27), DayOf(2026, 5, 18), DayOf(2026, 7, 22),
     DayOf(2026, 9, 9), DayOf(2026, 9, 18), DayOf(2026, 9, 23), DayOf(2026, 9, 30)}

\* 31 December of each year
NEW_YEAR_EVES ==
    {DayOf(2024, 12, 31), DayOf(2025, 12, 31), DayOf(2026, 12, 31)}

\* a calendar block whose holiday_eve leaves out 31 December
buildCalendarNoNewYear(date) ==
    LET dow == date % 7
    IN  [dow |-> dow,
         weekend |-> dow = 5 \/ dow = 6,
         month |-> MonthOf(date),
         holiday |-> date \in IL_HOLIDAYS,
         holiday_eve |-> date \in IL_HOLIDAY_EVES,
         new_year_eve |-> date \in NEW_YEAR_EVES]

\* buildCalendar(date): getUTCDay() of noon UTC of the date, and the lookups
buildCalendar(date) ==
    LET dow == date % 7
    IN  [dow |-> dow,
         weekend |-> dow = 5 \/ dow = 6,
         month |-> MonthOf(date),
         holiday |-> date \in IL_HOLIDAYS,
         holiday_eve |-> date \in IL_HOLIDAY_EVES \/ date \in NEW_YEAR_EVES,
         new_year_eve |-> date \in NEW_YEAR_EVES]

\* what the four upstreams answer to one build
Answers(bee, tabit, weather, oref) ==
    [beecomm |-> bee, tabit |-> tabit, weather |-> weather, oref |-> oref]

\* Promise.allSettled on one optional fetch: "fulfilled" or not
Fulfilled(r) == r.ok

\* a source of meta.sources that is reported "ok" whatever happened
sourceStatusAlwaysOk(fulfilled) == "ok"

\* a source of meta.sources: "ok" = data present, "missing" = upstream failed
sourceStatus(fulfilled) == IF fulfilled THEN "ok" ELSE "missing"

\* a build that starts the four fetches together
buildDailyDocCallsTogether(up) == <<"beecomm", "tabit", "weather", "oref">>

\* the fetch functions one build calls, in the order it calls them: the
\* required one is awaited first, and its rejection leaves the function
\* before the three optional ones are called
buildDailyDocCalls(up) ==
    IF ~fetchBeecommDaily(up.beecomm).ok
    THEN <<"beecomm">>
    ELSE <<"beecomm", "tabit", "weather", "oref">>

\* buildDailyDoc(tenantId, date) at time t: { path, doc }, or the rejection of
\* the required fetch. avg_check is kept in hundredths:
\* Math.round(x * 100) / 100 with Math.round(y) = floor(y + 1/2)
buildDailyDoc(tenantId, date, hasKey, up, t) ==
    LET beecomm == fetchBeecommDaily(up.beecomm)
        tabit == fetchTabitHours(hasKey, up.tabit)
        weather == fetchWeather(up.weather)
        oref == fetchOrefAlerts(up.oref)
        staffing == IF Fulfilled(tabit)
                    THEN (IF tabit.value = JNull THEN [total_hours |-> JNull]
                          ELSE tabit.value)
                    ELSE [total_hours |-> JNull]
        weatherDoc == IF Fulfilled(weather) THEN weather.value ELSE JNull
        alertsDoc == IF Fulfilled(oref) THEN oref.value ELSE JNull
        revenue_total == Nullish(beecomm.value.revenue_total, JNum(0))
        tickets == Nullish(beecomm.value.tickets, JNum(0))
    IN  IF ~beecomm.ok THEN beecomm
        ELSE [ok |-> TRUE,
              path |-> [tenantId |-> tenantId, branchId |-> "main", date |-> date],
              doc |-> [revenue_total |-> revenue_total,
                       tickets |-> tickets,
                       avg_check |-> IF tickets.v > 0
                                     THEN JNum((200 * revenue_total.v + tickets.v)
                                                    \div (2 * tickets.v))
                                     ELSE JNum(0),
                       revenue_delivery |-> beecomm.value.revenue_delivery,
                       hourly |-> beecomm.value.hourly,
                       weather |-> weatherDoc,
                       alerts |-> alertsDoc,
                       calendar |-> buildCalendar(date),
                       staffing |-> staffing,
                       meta |-> [createdAt |-> t,
                                 version |-> "1.0.0",
                                 tenantId |-> tenantId,
                                 branchId |-> "main",
                                 sources |->
                                     [beecomm |-> "ok",
                                      weather |-> sourceStatus(Fulfilled(weather)),
                                      oref |-> sourceStatus(Fulfilled(oref)),
                                      tabit |-> sourceStatus(Fulfilled(tabit)
                                                             /\ tabit.value # JNull)]]]]

\* ------------------------------------------------------------------------
\* The analytics documents in the store, and what a driver does with a build
\* ------------------------------------------------------------------------
\* what the store keeps of a document: a null child is no child, and an
\* object left without children is no object
rtdbValue(doc) ==
    [doc EXCEPT !.staffing = IF @.total_hours = JNull THEN JNull ELSE @]

\* ref(path).update(doc): the children the document names are written, the
\* others stay
rtdbUpdate(store, path, doc) ==
    LET old == IF path.date \in DOMAIN store[path.tenantId]
               THEN store[path.tenantId][path.date] ELSE doc
    IN  [store EXCEPT ![path.tenantId] =
            [d \in DOMAIN @ \cup {path.date} |->
                IF d = path.date
                THEN [f \in DOMAIN doc |-> IF rtdbValue(doc)[f] = JNull THEN old[f]
                                           ELSE rtdbValue(doc)[f]]
                ELSE @[d]]]

\* ref(path).set(doc): the document replaces whatever the path holds
rtdbSet(store, path, doc) ==
    [store EXCEPT ![path.tenantId] =
        [d \in DOMAIN @ \cup {path.date} |-> IF d = path.date THEN rtdbValue(doc) ELSE @[d]]]

\* ref(path).get() of a document: null when none is stored
rtdbGet(store, tenantId, date) ==
    IF date \in DOMAIN store[tenantId] THEN store[tenantId][date] ELSE JNull

\* a date of a query: whether it matches /^\d{4}-\d{2}-\d{2}$/, and
\* the day it names, counted in days (the order of two well-formed dates as
\* strings is the order of their days)
DateIn(fmt, day) == [fmt |-> fmt, day |-> day]

\* the reason a driver records for a skipped item:
\* e?.source ? `${e.source}/${e.reason}` : e?.message ?? "unknown"
skipReason(e) ==
    IF e.source # "" THEN [source |-> e.source, reason |-> e.reason]
    ELSE [source |-> "", reason |-> Reason("message", 0)]

\* a loop body that pushes every item to built
pushResultAlwaysBuilt(results, item, written, e) ==
    [built |-> Append(results.built, item), skipped |-> results.skipped]

\* the end of a loop body: results.built.push(item) after the write, or
\* results.skipped.push({ item, reason }) in the catch
pushResult(results, item, written, e) ==
    IF written
    THEN [built |-> Append(results.built, item), skipped |-> results.skipped]
    ELSE [built |-> results.built,
          skipped |-> Append(results.skipped, [item |-> item, reason |-> skipReason(e)])]

\* answers of the four upstreams: a day with revenue n in k tickets, h hours
\* worked and r mm of rain; the alert history answers with a JSON object
BeeOk(n, k) ==
    FetchHttp(200, JsonObj([total_sales |-> JNum(n), totalSales |-> JNull,
                            transaction_count |-> JNum(k), delivery_sales |-> JNull,
                            hourly |-> JNull]))
TabitOk(h) == FetchHttp(200, JsonObj([total_hours |-> JNum(h)]))
WeatherOk(r) ==
    FetchHttp(200, JsonObj([precipitation_sum |-> JNum(r), temperature_2m_mean |-> JNull]))
OrefOk == FetchHttp(200, JsonObj([data |-> JNull]))
AllOk == Answers(BeeOk(100, 4), TabitOk(8), WeatherOk(2), OrefOk)
BeeDown == [AllOk EXCEPT !.beecomm = FetchHttp(503, BadJson)]

\* ------------------------------------------------------------------------
\* /api/analytics/daily-builder (ScheduledBuilder)
\* ------------------------------------------------------------------------
\* the configured secret, and what requests send
CronSecret == <<"s", "1">>
Bearer == <<"B", "e", "a", "r", "e", "r", " ">>

RECURSIVE dropSpaces(_)
dropSpaces(h) == IF Len(h) > 0 /\ Head(h) = " " THEN dropSpaces(Tail(h)) ELSE h

\* h.replace(/^Bearer\s+/i, ""), for headers that spell the scheme "Bearer"
\* or "bearer" and use the space as white space
stripBearer(h) ==
    IF /\ Len(h) >= 7
       /\ SubSeq(h, 2, 7) = SubSeq(Bearer, 2, 7)
       /\ h[1] \in {"B", "b"}
    THEN dropSpaces(SubSeq(h, 8, Len(h)))
    ELSE h

\* a compare of the lengths alone
secretMatchesByLength(secret, incoming) == Len(secret) = Len(incoming)

\* a.length === b.length && timingSafeEqual(a, b)
secretMatches(secret, incoming) ==
    /\ Len(secret) = Len(incoming)
    /\ \A i \in 1..Len(secret) : secret[i] = incoming[i]

\* the two secret checks without the refusal of an unset CRON_SECRET
cronGateNoFailClosed(secret, incoming) ==
    CASE ~secretMatches(secret, incoming) -> 404
      [] OTHER -> 0

\* the two secret checks: 503 when CRON_SECRET is unset or empty, 404 when
\* the secret sent is not the configured one
cronGate(secret, incoming) ==
    CASE Len(secret) = 0 -> 503
      [] ~secretMatches(secret, incoming) -> 404
      [] OTHER -> 0

\* getYesterdayUTC() at time t; dates are counted in days and time 0 lies in
\* day 2
getYesterdayUTC(t) == 2 + t \div (24 * 60 * 60 * 1000) - 1

SbArrived(r) == IF r = 1 THEN TRUE ELSE sb[r - 1].pc # "idle"

\* the secret checks and the date, up to the read of the tenant list.
\* x: the x-cron-secret header; authz: the authorization header; hasDate:
\* the query names a date
SbArrive(r, x, authz, hasDate, qdate) ==
    /\ sb[r].pc = "idle"
    /\ SbArrived(r)
    /\ LET secret == env.cronSecret
           incoming == IF Len(x) > 0 THEN x ELSE stripBearer(authz)
           date == IF hasDate THEN qdate ELSE DateIn(TRUE, getYesterdayUTC(now))
           gate == cronGate(secret, incoming)
           status == CASE gate # 0 -> gate
                       [] ~date.fmt -> 400
                       [] OTHER -> 0
       IN sb' = [sb EXCEPT ![r] =
                IF status # 0
                THEN [@ EXCEPT !.pc = "done", !.status = status, !.incoming = incoming]
                ELSE [@ EXCEPT !.pc = "tenants", !.incoming = incoming, !.date = date.day]]
    /\ UNCHANGED <<now, env, members, roles, audit, lock, buckets, rate, calls, boot, upd, bf,
                   daily, rd, orefApi>>

\* db.ref("tenants").get(): the keys of the tenants node, or an error
SbTenants(r, outcome, keys) ==
    /\ sb[r].pc = "tenants"
    /\ sb' = [sb EXCEPT ![r] =
            IF outcome # "value"
            THEN [@ EXCEPT !.pc = "done", !.status = 503, !.listed = TRUE]
            ELSE IF Len(keys) = 0
            THEN [@ EXCEPT !.pc = "done", !.status = 200, !.listed = TRUE]
            ELSE [@ EXCEPT !.pc = "loop", !.tenants = keys, !.listed = TRUE]]
    /\ UNCHANGED <<now, env, members, roles, audit, lock, buckets, rate, calls, boot, upd, bf,
                   daily, rd, orefApi>>

\* one tenant of the loop: buildDailyDoc, then the write; after the last
\* tenant the handler answers 200
SbBuild(r, up, wr) ==
    /\ sb[r].pc = "loop"
    /\ sb[r].idx < Len(sb[r].tenants)
    /\ LET tenantId == sb[r].tenants[sb[r].idx + 1]
           b == buildDailyDoc(tenantId, sb[r].date, env.tabitKey, up, now)
           e == IF b.ok THEN Unstructured ELSE b
           written == b.ok /\ wr = "ok"
           last == sb[r].idx + 1 = Len(sb[r].tenants)
       IN /\ daily' = IF written THEN rtdbSet(daily, b.path, b.doc) ELSE daily
          /\ sb' = [sb EXCEPT ![r] =
                [@ EXCEPT !.idx = @ + 1,
                          !.built = pushResult(sb[r], tenantId, written, e).built,
                          !.skipped = pushResult(sb[r], tenantId, written, e).skipped,
                          !.last = [up |-> up, res |-> b, wrote |-> written,
                                    calls |-> buildDailyDocCalls(up)],
                          !.pc = IF last THEN "done" ELSE "loop",
                          !.status = IF last THEN 200 ELSE 0]]
    /\ UNCHANGED <<now, env, members, roles, audit, lock, buckets, rate, calls, boot, upd, bf, rd,
                   orefApi>>

\* the steps of ScheduledBuilder request r for inputs drawn from the given sets
SbSteps(r, xs, authzs, qdates, outcomes, keylists, answers, writes) ==
    \/ \E x \in xs, authz \in authzs, hasDate \in BOOLEAN, qdate \in qdates :
            SbArrive(r, x, authz, hasDate, qdate)
    \/ \E outcome \in outcomes, keys \in keylists : SbTenants(r, outcome, keys)
    \/ \E up \in answers, wr \in writes : SbBuild(r, up, wr)

\* ------------------------------------------------------------------------
\* POST /api/analytics/backfill (Backfill) and its lease lock
\* ------------------------------------------------------------------------
MAX_DAYS == 90
TTL_MS == 10 * 60 * 1000

DateInputs == {DateIn(TRUE, 1), DateIn(TRUE, 2), DateIn(TRUE, 100), DateIn(FALSE, 1)}
ValidDates == {DateIn(TRUE, d) : d \in 1..MaxDates}

\* dateRange(from, to).length: one date per day from `from` to `to` inclusive
dateRangeLen(from, to) == IF from.day > to.day THEN 0 ELSE to.day - from.day + 1

\* validation of the query without the bound on the number of dates
bfValidateUnbounded(tenantId, from, to) ==
    CASE Falsy(tenantId) -> [status |-> 400, error |-> "invalid tenantId"]
      [] tenantId.t = "str" /\ RTDB_FORBIDDEN(tenantId.v) ->
            [status |-> 400, error |-> "invalid tenantId"]
      [] ~from.fmt -> [status |-> 400, error |-> "invalid from date"]
      [] ~to.fmt -> [status |-> 400, error |-> "invalid to date"]
      [] from.day > to.day -> [status |-> 400, error |-> "from must be <= to"]
      [] OTHER -> [status |-> 0, error |-> ""]

\* validation of the query { tenantId, from, to }
bfValidate(tenantId, from, to) ==
    CASE Falsy(tenantId) -> [status |-> 400, error |-> "invalid tenantId"]
      [] tenantId.t = "str" /\ RTDB_FORBIDDEN(tenantId.v) ->
            [status |-> 400, error |-> "invalid tenantId"]
      [] ~from.fmt -> [status |-> 400, error |-> "invalid from date"]
      [] ~to.fmt -> [status |-> 400, error |-> "invalid to date"]
      [] from.day > to.day -> [status |-> 400, error |-> "from must be <= to"]
      [] dateRangeLen(from, to) > MAX_DAYS -> [status |-> 400, error |-> "max days"]
      [] OTHER -> [status |-> 0, error |-> ""]

\* a finished request: what it answered, its range if it went through the
\* loop, what it built, the token and the lease it acquired, whether its release deleted the lock record, and the
\* record its release aborted on
BfDone(q, status, released, logged) ==
    [BfIdle EXCEPT !.pc = "done", !.status = status, !.lockId = q.lockId,
                   !.expiresAt = q.expiresAt, !.released = released,
                   !.built = q.built, !.skipped = q.skipped, !.logged = logged,
                   !.from = IF status = 200 THEN q.from ELSE 0,
                   !.ndates = IF status = 200 THEN q.ndates ELSE 0]

\* acquireLock's update function aborts on a lock that has not expired
acqAbortNever(current, t) == FALSE

acqAbortPresent(current, t) == current.present

acqAbort(current, t) ==
    current.present /\ current.expiresAt # 0 /\ t < current.expiresAt

\* the record acquireLock writes; the token of request r is r (tokens are
\* random strings, taken to be distinct between requests)
acqPropose(r, t) == [lockId |-> r, expiresAt |-> t + TTL_MS, present |-> TRUE]

\* releaseLock's update function aborts on a record that is not the caller's
relAbortNever(current, lockId) == FALSE

relAbort(current, lockId) == ~current.present \/ current.lockId # lockId

BfArrived(r) == IF r = 1 THEN TRUE ELSE bf[r - 1].pc # "idle"

\* method, auth and the two rate-limit checks
BfArrive(r, method, auth, up1, up2) ==
    /\ bf[r].pc = "idle"
    /\ BfArrived(r)
    /\ LET gate == RateGate(buckets, env.isProd, up1, up2, "backfill", <<"i">>, auth.uid, 2, 1, now)
           end == CASE method # "POST" -> [status |-> 405]
                    [] ~auth.ok -> [status |-> 401]
                    [] OTHER -> [status |-> gate.status]
       IN /\ buckets' = IF method = "POST" /\ auth.ok THEN gate.map ELSE buckets
          /\ bf' = [bf EXCEPT ![r] =
                IF end.status # 0
                THEN BfDone(@, end.status, FALSE, "none")
                ELSE [@ EXCEPT !.pc = "body", !.caller = auth.uid]]
    /\ UNCHANGED <<now, env, members, roles, audit, lock, rate, calls, boot, upd, daily, sb, rd,
                   orefApi>>

\* query validation, and the input validation of
\* requireTenantAccess(claims.uid, tenantId, "manager"); a request refused
\* for its number of dates is remembered with that number
BfBody(r, tenantId, from, to) ==
    /\ bf[r].pc = "body"
    /\ LET v == bfValidate(tenantId, from, to)
           a == rtaValidate(JStr(bf[r].caller), tenantId, RManager)
           end == IF v.status # 0 THEN [status |-> v.status] ELSE [status |-> a.status]
       IN bf' = [bf EXCEPT ![r] =
                IF end.status # 0
                THEN [BfDone(@, end.status, FALSE, "none") EXCEPT
                            !.ndates = IF v.error = "max days"
                                       THEN dateRangeLen(from, to) ELSE 0]
                ELSE [@ EXCEPT !.pc = "rta_member", !.tenantId = tenantId.v,
                               !.from = from.day, !.ndates = dateRangeLen(from, to)]]
    /\ UNCHANGED <<now, env, members, roles, audit, lock, buckets, rate, calls, boot, upd, daily, sb, rd,
                   orefApi>>

\* requireTenantAccess: the membership read
BfMemberRead(r, outcome) ==
    /\ bf[r].pc = "rta_member"
    /\ LET val == IF outcome = "value" THEN members[bf[r].tenantId][bf[r].caller] ELSE JNull
           v == rtaMember(outcome, val)
       IN bf' = [bf EXCEPT ![r] =
            IF v.status = 0 THEN [@ EXCEPT !.pc = "rta_role"]
            ELSE BfDone(@, v.status, FALSE, "none")]
    /\ UNCHANGED <<now, env, members, roles, audit, lock, buckets, rate, calls, boot, upd, daily, sb, rd,
                   orefApi>>

\* requireTenantAccess: the role read; on success the handler calls
\* acquireLock, whose transaction first runs on the client's view of the lock
BfRoleRead(r, outcome, first) ==
    /\ bf[r].pc = "rta_role"
    /\ first \in FirstViews(lock[bf[r].tenantId], NoLock)
    /\ LET val == IF outcome = "value" THEN roles[bf[r].tenantId][bf[r].caller] ELSE JNull
           v == rtaRole(outcome, val, RManager)
       IN bf' = [bf EXCEPT ![r] =
            IF v.status # 0
            THEN BfDone(@, v.status, FALSE, "none")
            ELSE [@ EXCEPT !.pc = "acq_run", !.view = first, !.rta = val]]
    /\ UNCHANGED <<now, env, members, roles, audit, lock, buckets, rate, calls, boot, upd, daily, sb, rd,
                   orefApi>>

\* acquireLock's update function on the view: abort (acquireLock returns null
\* and the handler answers 409), or a record to send
BfAcqRun(r) ==
    /\ bf[r].pc = "acq_run"
    /\ bf' = [bf EXCEPT ![r] =
            IF acqAbort(bf[r].view, now)
            THEN BfDone(@, 409, FALSE, "none")
            ELSE [@ EXCEPT !.pc = "acq_send", !.expiresAt = acqPropose(r, now).expiresAt]]
    /\ UNCHANGED <<now, env, members, roles, audit, lock, buckets, rate, calls, boot, upd, daily, sb, rd,
                   orefApi>>

\* the store commits the record if the path still holds the view, and the
\* handler enters its loop over the dates; else the update function runs
\* again on the current value
BfAcqSend(r) ==
    /\ bf[r].pc = "acq_send"
    /\ LET t == bf[r].tenantId
       IN IF lock[t] = bf[r].view
          THEN /\ lock' = [lock EXCEPT ![t] =
                        [acqPropose(r, now) EXCEPT !.expiresAt = bf[r].expiresAt]]
               /\ bf' = [bf EXCEPT ![r] =
                        [@ EXCEPT !.pc = "loop", !.lockId = r, !.view = NoLock]]
          ELSE /\ bf' = [bf EXCEPT ![r] =
                        [@ EXCEPT !.pc = "acq_run", !.view = lock[t], !.expiresAt = 0]]
               /\ UNCHANGED lock
    /\ UNCHANGED <<now, env, members, roles, audit, buckets, rate, calls, boot, upd, daily, sb, rd,
                   orefApi>>

\* the transaction rejects: acquireLock logs, returns null, the handler
\* answers 409
BfAcqError(r) ==
    /\ bf[r].pc \in {"acq_run", "acq_send"}
    /\ bf' = [bf EXCEPT ![r] = BfDone([@ EXCEPT !.expiresAt = 0], 409, FALSE, "acquire")]
    /\ UNCHANGED <<now, env, members, roles, audit, lock, buckets, rate, calls, boot, upd, daily, sb, rd,
                   orefApi>>

\* one date of the loop: buildDailyDoc on what the upstreams answer, then the
\* write of the document; the date is pushed to built, or, when either
\* throws, to skipped with the reason. After the last date the finally block
\* calls releaseLock
BfBuild(r, up, wr, first) ==
    /\ bf[r].pc = "loop"
    /\ bf[r].idx < bf[r].ndates
    /\ first \in FirstViews(lock[bf[r].tenantId], NoLock)
    /\ LET date == bf[r].from + bf[r].idx
           b == buildDailyDoc(bf[r].tenantId, date, env.tabitKey, up, now)
           e == IF b.ok THEN Unstructured ELSE b
           written == b.ok /\ wr = "ok"
       IN /\ daily' = IF written THEN rtdbSet(daily, b.path, b.doc) ELSE daily
          /\ bf' = [bf EXCEPT ![r] =
                [@ EXCEPT !.idx = @ + 1,
                          !.built = pushResult(bf[r], date, written, e).built,
                          !.skipped = pushResult(bf[r], date, written, e).skipped,
                          !.last = [up |-> up, res |-> b, wrote |-> written,
                                    calls |-> buildDailyDocCalls(up)],
                          !.pc = IF bf[r].idx + 1 = bf[r].ndates THEN "rel_run" ELSE "loop",
                          !.view = IF bf[r].idx + 1 = bf[r].ndates THEN first ELSE NoLock]]
    /\ UNCHANGED <<now, env, members, roles, audit, lock, buckets, rate, calls, boot, upd, sb, rd,
                   orefApi>>

\* releaseLock's update function on the view: abort, or a delete to send;
\* either way the handler then answers 200
BfRelRun(r) ==
    /\ bf[r].pc = "rel_run"
    /\ bf' = [bf EXCEPT ![r] =
            IF relAbort(bf[r].view, bf[r].lockId)
            THEN [BfDone(@, 200, FALSE, "none") EXCEPT !.view = bf[r].view]
            ELSE [@ EXCEPT !.pc = "rel_send"]]
    /\ UNCHANGED <<now, env, members, roles, audit, lock, buckets, rate, calls, boot, upd, daily, sb, rd,
                   orefApi>>

BfRelSend(r) ==
    /\ bf[r].pc = "rel_send"
    /\ LET t == bf[r].tenantId
       IN IF lock[t] = bf[r].view
          THEN /\ lock' = [lock EXCEPT ![t] = NoLock]
               /\ bf' = [bf EXCEPT ![r] = BfDone(@, 200, TRUE, "none")]
          ELSE /\ bf' = [bf EXCEPT ![r] = [@ EXCEPT !.pc = "rel_run", !.view = lock[t]]]
               /\ UNCHANGED lock
    /\ UNCHANGED <<now, env, members, roles, audit, buckets, rate, calls, boot, upd, daily, sb, rd,
                   orefApi>>

\* the transaction rejects: releaseLock logs and returns
BfRelError(r) ==
    /\ bf[r].pc \in {"rel_run", "rel_send"}
    /\ bf' = [bf EXCEPT ![r] = BfDone(@, 200, FALSE, "release")]
    /\ UNCHANGED <<now, env, members, roles, audit, lock, buckets, rate, calls, boot, upd, daily, sb, rd,
                   orefApi>>

\* the process running the handler is killed inside the loop: the finally
\* block never runs, releaseLock is never called
BfCrash(r) ==
    /\ bf[r].pc = "loop"
    /\ bf' = [bf EXCEPT ![r] = [@ EXCEPT !.pc = "crashed"]]
    /\ UNCHANGED <<now, env, members, roles, audit, lock, buckets, rate, calls, boot, upd, daily, sb, rd,
                   orefApi>>

\* a caller whose request ended without the lock sends a request again
BfRetry(r) ==
    /\ bf[r].pc = "done" /\ bf[r].lockId = 0
    /\ bf' = [bf EXCEPT ![r] = BfIdle]
    /\ UNCHANGED <<now, env, members, roles, audit, lock, buckets, rate, calls, boot, upd, daily, sb, rd,
                   orefApi>>

\* Date.now() moves on, in steps of half the lease, up to the last tick and
\* past it for as long as a stored lease has not expired
TickMs == TTL_MS \div 2

LeaseRunning == \E t \in Tenants : lock[t].present /\ now < lock[t].expiresAt

Tick ==
    /\ now < MaxTicks * TickMs \/ LeaseRunning
    /\ now' = now + TickMs
    /\ UNCHANGED <<env, members, roles, audit, lock, buckets, rate, calls, boot, upd, bf, daily, sb, rd,
                   orefApi>>

\* the steps of Backfill request r that no fault interrupts, for inputs drawn
\* from the given sets
BfRun(r, methods, auths, ups, tenantIds, froms, tos, outcomes, answers, writes) ==
    \/ \E method \in methods, auth \in auths, up1 \in ups, up2 \in ups :
            BfArrive(r, method, auth, up1, up2)
    \/ \E tenantId \in tenantIds, from \in froms, to \in tos : BfBody(r, tenantId, from, to)
    \/ \E outcome \in outcomes : BfMemberRead(r, outcome)
    \/ \E outcome \in outcomes, first \in {NoLock} \cup {lock[t] : t \in Tenants} :
            BfRoleRead(r, outcome, first)
    \/ BfAcqRun(r)
    \/ BfAcqSend(r)
    \/ \E up \in answers, wr \in writes, first \in {NoLock} \cup {lock[t] : t \in Tenants} :
            BfBuild(r, up, wr, first)
    \/ BfRelRun(r)
    \/ BfRelSend(r)

\* ------------------------------------------------------------------------
\* GET /api/beecomm, GET /api/tabit and GET /api/analytics/check: the reads
\* behind requireTenantAccess
\* ------------------------------------------------------------------------
RdOps == {"beecomm", "tabit", "check"}

\* the minimum role an operation passes to requireTenantAccess
rdMinRoleViewer(op) == RViewer

rdMinRole(op) == IF op = "tabit" THEN RShiftManager ELSE RManager

\* the limits of its two rate-limit checks
rdLimits(op) == IF op = "check" THEN [ip |-> 10, uid |-> 10] ELSE [ip |-> 30, uid |-> 20]

\* the upstream paths a proxy forwards
ALLOWED_PATHS(op) ==
    CASE op = "beecomm" -> {"/v1/reports/daily-summary", "/v1/reports/sales", "/v1/reports/payments"}
      [] op = "tabit" -> {"/v1/shifts/summary", "/v1/shifts/current", "/v1/labor/daily"}
      [] OTHER -> {}

\* req.query.date || "" of a request without a date
NoDate == DateIn(FALSE, 0)

\* the method check: OPTIONS is answered 204 by the two proxies
rdMethod(op, method) ==
    CASE method = "OPTIONS" /\ op # "check" -> 204
      [] method # "GET" -> 405
      [] OTHER -> 0

\* what is validated before requireTenantAccess is called
rdValidateFirst(op, tenantId, date) ==
    CASE op # "check" /\ Falsy(tenantId) -> [status |-> 400, error |-> "missing tenantId"]
      [] op # "check" -> [status |-> 0, error |-> ""]
      [] Falsy(tenantId) -> [status |-> 400, error |-> "invalid tenantId"]
      [] tenantId.t = "str" /\ RTDB_FORBIDDEN(tenantId.v) ->
            [status |-> 400, error |-> "invalid tenantId"]
      [] ~date.fmt -> [status |-> 400, error |-> "invalid date"]
      [] OTHER -> [status |-> 0, error |-> ""]

\* what the proxies validate after requireTenantAccess has returned
rdValidateLater(op, path, date) ==
    CASE op = "check" -> [status |-> 0, error |-> ""]
      [] path \notin ALLOWED_PATHS(op) -> [status |-> 400, error |-> "invalid path"]
      [] op = "beecomm" /\ ~date.fmt -> [status |-> 400, error |-> "invalid date"]
      [] op = "tabit" /\ date # NoDate /\ ~date.fmt -> [status |-> 400, error |-> "invalid date"]
      [] OTHER -> [status |-> 0, error |-> ""]

\* the response of a proxy to what its upstream fetch brought
rdProxyStatus(res) ==
    IF res.kind = "http" /\ resOk(res) /\ res.body # BadJson THEN 200 ELSE 502

\* the checksum of the check: the fresh document against the stored one
rdChecksum(freshDoc, storedDoc) ==
    [fresh_revenue |-> freshDoc.revenue_total,
     fresh_tickets |-> freshDoc.tickets,
     stored_revenue |-> IF storedDoc = JNull THEN JNull ELSE storedDoc.revenue_total,
     stored_tickets |-> IF storedDoc = JNull THEN JNull ELSE storedDoc.tickets,
     match |-> IF storedDoc = JNull THEN JNull
               ELSE JBool(freshDoc.revenue_total = storedDoc.revenue_total
                          /\ freshDoc.tickets = storedDoc.tickets),
     stored_at |-> IF storedDoc = JNull THEN JNull ELSE JNum(storedDoc.meta.createdAt),
     stored |-> storedDoc # JNull]

\* a finished request: its response, and whether it went past
\* requireTenantAccess and called upstream
RdDone(q, status) ==
    [RdIdle EXCEPT !.pc = "done", !.status = status, !.op = q.op, !.rta = q.rta,
                   !.called = q.called, !.checksum = q.checksum]

\* method, auth and the two rate-limit checks
RdArrive(r, op, method, auth, up1, up2) ==
    /\ rd[r].pc = "idle"
    /\ LET gate == RateGate(buckets, env.isProd, up1, up2, op, <<"i">>, auth.uid,
                            rdLimits(op).ip, rdLimits(op).uid, now)
           end == CASE rdMethod(op, method) # 0 -> [status |-> rdMethod(op, method)]
                    [] ~auth.ok -> [status |-> 401]
                    [] OTHER -> [status |-> gate.status]
       IN /\ buckets' = IF rdMethod(op, method) = 0 /\ auth.ok THEN gate.map ELSE buckets
          /\ rd' = [rd EXCEPT ![r] =
                IF end.status # 0
                THEN RdDone([@ EXCEPT !.op = op], end.status)
                ELSE [@ EXCEPT !.pc = "body", !.op = op, !.caller = auth.uid]]
    /\ UNCHANGED <<now, env, members, roles, audit, lock, rate, calls, boot, upd, bf, daily, sb,
                   orefApi>>

\* the query { tenantId, path, date }: what is validated first, and the input
\* validation of requireTenantAccess(claims.uid, tenantId, minRole)
RdBody(r, tenantId, path, date) ==
    /\ rd[r].pc = "body"
    /\ LET v == rdValidateFirst(rd[r].op, tenantId, date)
           a == rtaValidate(JStr(rd[r].caller), tenantId, rdMinRole(rd[r].op))
           end == IF v.status # 0 THEN [status |-> v.status] ELSE [status |-> a.status]
       IN rd' = [rd EXCEPT ![r] =
                IF end.status # 0
                THEN RdDone(@, end.status)
                ELSE [@ EXCEPT !.pc = "rta_member", !.tenantId = tenantId.v,
                               !.path = path, !.date = date]]
    /\ UNCHANGED <<now, env, members, roles, audit, lock, buckets, rate, calls, boot, upd, bf, daily, sb,
                   orefApi>>

\* requireTenantAccess: the membership read
RdMemberRead(r, outcome) ==
    /\ rd[r].pc = "rta_member"
    /\ LET val == IF outcome = "value" THEN members[rd[r].tenantId][rd[r].caller] ELSE JNull
           v == rtaMember(outcome, val)
       IN rd' = [rd EXCEPT ![r] =
            IF v.status = 0 THEN [@ EXCEPT !.pc = "rta_role"] ELSE RdDone(@, v.status)]
    /\ UNCHANGED <<now, env, members, roles, audit, lock, buckets, rate, calls, boot, upd, bf, daily, sb,
                   orefApi>>

\* requireTenantAccess: the role read; on success the proxies validate path
\* and date, and the handler goes on to its upstream call
RdRoleRead(r, outcome) ==
    /\ rd[r].pc = "rta_role"
    /\ LET val == IF outcome = "value" THEN roles[rd[r].tenantId][rd[r].caller] ELSE JNull
           v == rtaRole(outcome, val, rdMinRole(rd[r].op))
           w == rdValidateLater(rd[r].op, rd[r].path, rd[r].date)
       IN rd' = [rd EXCEPT ![r] =
            IF v.status # 0 THEN RdDone(@, v.status)
            ELSE IF w.status # 0 THEN RdDone([@ EXCEPT !.rta = val], w.status)
            ELSE [@ EXCEPT !.pc = "fetch", !.rta = val]]
    /\ UNCHANGED <<now, env, members, roles, audit, lock, buckets, rate, calls, boot, upd, bf, daily, sb,
                   orefApi>>

\* the upstream call: the fetch of a proxy and its response, or the
\* buildDailyDoc of the check, which answers 502 when the build rejects
RdFetch(r, up) ==
    /\ rd[r].pc = "fetch"
    /\ LET b == buildDailyDoc(rd[r].tenantId, rd[r].date.day, env.tabitKey, up, now)
       IN rd' = [rd EXCEPT ![r] =
            CASE rd[r].op = "beecomm" ->
                    RdDone([@ EXCEPT !.called = TRUE], rdProxyStatus(up.beecomm))
              [] rd[r].op = "tabit" ->
                    RdDone([@ EXCEPT !.called = TRUE], rdProxyStatus(up.tabit))
              [] OTHER ->
                    IF b.ok THEN [@ EXCEPT !.pc = "stored", !.called = TRUE, !.fresh = b.doc]
                    ELSE RdDone([@ EXCEPT !.called = TRUE], 502)]
    /\ UNCHANGED <<now, env, members, roles, audit, lock, buckets, rate, calls, boot, upd, bf, daily, sb,
                   orefApi>>

\* a check that stores its fresh document when the stored one differs
RdStoredRepair(r, outcome) ==
    /\ rd[r].pc = "stored"
    /\ LET storedDoc == IF outcome = "value"
                        THEN rtdbGet(daily, rd[r].tenantId, rd[r].date.day) ELSE JNull
           sum == rdChecksum(rd[r].fresh, storedDoc)
       IN /\ rd' = [rd EXCEPT ![r] = RdDone([@ EXCEPT !.checksum = sum], 200)]
          /\ daily' = IF sum.match = JBool(FALSE)
                      THEN rtdbSet(daily, [tenantId |-> rd[r].tenantId, branchId |-> "main",
                                           date |-> rd[r].date.day], rd[r].fresh)
                      ELSE daily
    /\ UNCHANGED <<now, env, members, roles, audit, lock, buckets, rate, calls, boot, upd, bf, sb,
                   orefApi>>

\* the check reads the stored document (a failed read is logged and counts as
\* no document) and answers 200 with the checksum
RdStored(r, outcome) ==
    /\ rd[r].pc = "stored"
    /\ LET storedDoc == IF outcome = "value"
                        THEN rtdbGet(daily, rd[r].tenantId, rd[r].date.day) ELSE JNull
       IN rd' = [rd EXCEPT ![r] =
            RdDone([@ EXCEPT !.checksum = rdChecksum(rd[r].fresh, storedDoc)], 200)]
    /\ UNCHANGED <<now, env, members, roles, audit, lock, buckets, rate, calls, boot, upd, bf, daily, sb,
                   orefApi>>

\* the steps of the gated reads, for inputs drawn from the given sets
RdSteps(ops, methods, auths, ups, tenantIds, paths, dates, outcomes, answers) ==
    \/ \E r \in RdIds, op \in ops, method \in methods, auth \in auths, up1 \in ups, up2 \in ups :
            RdArrive(r, op, method, auth, up1, up2)
    \/ \E r \in RdIds, tenantId \in tenantIds, path \in paths, date \in dates :
            RdBody(r, tenantId, path, date)
    \/ \E r \in RdIds, outcome \in outcomes : RdMemberRead(r, outcome)
    \/ \E r \in RdIds, outcome \in outcomes : RdRoleRead(r, outcome)
    \/ \E r \in RdIds, up \in answers : RdFetch(r, up)
    \/ \E r \in RdIds, outcome \in outcomes : RdStored(r, outcome)

\* ------------------------------------------------------------------------
\* Spec: concurrent Bootstrap and UpdateRole requests on one tenant's role
\* state; every request passes method, auth, rate limit and body validation
\* ------------------------------------------------------------------------
\* role maps a tenant can start with, and the membership flags that go with
\* them
StartRoles == {JNull, ROwner, RViewer}

Init ==
    /\ InitRest
    /\ env \in [isProd : {TRUE}, bootstrapEnabled : {TRUE},
               cronSecret : {CronSecret}, tabitKey : {TRUE}]
    /\ roles \in [Tenants -> [Uids -> StartRoles]]
    /\ members = [t \in Tenants |-> [u \in Uids |-> IF roles[t][u] = JNull THEN JNull ELSE JTrue]]
    /\ rate = RateIdle
    /\ calls = [c \in CallIds |-> CallIdle]
    /\ boot = [b \in BootIds |-> IF b <= NumBootInSpec THEN BootIdle ELSE BootAbsent]
    /\ upd = [r \in UpdIds |-> UpdIdle]
    /\ bf = [r \in BfIds |-> BfIdle]

\* requests that pass the checks made before the store is touched
OkAuths == {a \in AuthOutcomes : a.ok}
ValidUids == {JStr(u) : u \in Uids}
ValidTenants == {JStr(t) : t \in Tenants}
StoreOutcomes == {"value", "error"}

Next ==
    \/ BootSteps({"POST"}, OkAuths, {UpCount(1)}, ValidTenants, ValidUids)
    \/ UpdSteps({"POST"}, OkAuths, {UpCount(1)}, ValidTenants, ValidUids,
                {JNull, ROwner, RViewer}, StoreOutcomes)

Spec == Init /\ [][Next]_vars

\* ------------------------------------------------------------------------
\* SpecBootstrap: concurrent Bootstrap requests on a tenant without an owner
\* ------------------------------------------------------------------------
InitBootstrap ==
    /\ InitRest
    /\ env \in [isProd : {TRUE}, bootstrapEnabled : {TRUE},
               cronSecret : {CronSecret}, tabitKey : {TRUE}]
    /\ roles \in [Tenants -> [Uids -> {JNull, RViewer}]]
    /\ members = [t \in Tenants |-> [u \in Uids |-> IF roles[t][u] = JNull THEN JNull ELSE JTrue]]
    /\ rate = RateIdle
    /\ calls = [c \in CallIds |-> CallIdle]
    /\ boot = [b \in BootIds |-> BootIdle]
    /\ upd = [r \in UpdIds |-> UpdAbsent]
    /\ bf = [r \in BfIds |-> BfIdle]

NextBootstrap == BootSteps({"POST"}, OkAuths, {UpCount(1)}, ValidTenants, ValidUids)

SpecBootstrap == InitBootstrap /\ [][NextBootstrap]_vars

\* ------------------------------------------------------------------------
\* SpecSelf: Bootstrap requests of two callers on tenants without an owner,
\* whose bodies name the caller, the other user, a third user, or no
\* well-formed uid; the rate limiter lets a request pass or not
\* ------------------------------------------------------------------------
UidC == <<"c">>
BodyUids == ValidUids \cup {JStr(UidC), JStr(<<>>), JNull, JStr(<<"a", "/">>)}

NextSelf == BootSteps({"POST"}, OkAuths, {UpCount(1), UpCount(9)}, ValidTenants, BodyUids)

SpecSelf == InitBootstrap /\ [][NextSelf]_vars

\* ------------------------------------------------------------------------
\* SpecSide: one Bootstrap and one UpdateRole request with any identity
\* outcome, rate-limit outcome, body and store outcome
\* ------------------------------------------------------------------------
InitSide ==
    /\ InitRest
    /\ env \in [isProd : {TRUE}, bootstrapEnabled : {TRUE},
               cronSecret : {CronSecret}, tabitKey : {TRUE}]
    /\ roles \in [Tenants -> [Uids -> StartRoles]]
    /\ members = [t \in Tenants |-> [u \in Uids |-> IF roles[t][u] = JNull THEN JNull ELSE JTrue]]
    /\ rate = RateIdle
    /\ calls = [c \in CallIds |-> CallIdle]
    /\ boot = [b \in BootIds |-> IF b = 1 THEN BootIdle ELSE BootAbsent]
    /\ upd = [r \in UpdIds |-> IF r = 1 THEN UpdIdle ELSE UpdAbsent]
    /\ bf = [r \in BfIds |-> BfAbsent]

NextSide ==
    \/ BootSteps({"POST"}, AuthOutcomes, {UpCount(1), UpCount(9)},
                 ValidTenants \cup {JNull}, ValidUids \cup {JStr(<<>>)})
    \/ UpdSteps({"POST"}, AuthOutcomes, {UpCount(1), UpCount(9)},
                ValidTenants \cup {JNull}, ValidUids, {JNull, ROwner, RViewer, RAdmin},
                StoreOutcomes)

SpecSide == InitSide /\ [][NextSide]_vars

\* ------------------------------------------------------------------------
\* The public alert endpoint (api/orefApi.js)
\* ------------------------------------------------------------------------
\* the lifetime of a cached response, in ms
CACHE_MS == 15000

\* what up.text() resolves to: a text longer than 10 KB ("long"), a text
\* that is empty after trim ("blank"), a text JSON.parse accepts ("json") or
\* one it rejects ("bad"); id tells two texts of a kind apart
OrefText(kind, id) == [kind |-> kind, id |-> id]
EmptyObject == OrefText("json", 0)

\* "fetch" for a fetch that rejects or is aborted after 4 s
OrefReject == OrefText("reject", 0)

\* the validation of the upstream text and the assignment to _cache, at time
\* t. The Node handler assigns in every branch. The Edge handler assigns the
\* text itself only under `if (!_cache)`, so a _cache that was ever set keeps
\* its body and its expiry when the text is valid
orefStore(version, cache, text, t) ==
    LET empty == [present |-> TRUE, body |-> EmptyObject, expiresAt |-> t + CACHE_MS]
        own == [present |-> TRUE, body |-> text, expiresAt |-> t + CACHE_MS]
    IN  CASE text.kind = "long" -> empty
          [] text.kind = "bad" -> empty
          [] text.kind = "blank" -> empty
          [] OTHER -> IF version = "edge" /\ cache.present THEN cache ELSE own

\* the head of the handler: the method, the rate limit (10 per 30 s per IP; in
\* the Node handler a throwing limiter is ignored), then the cache: a fresh
\* _cache is served, else fetch(UPSTREAM) is called
OrefArrive(r, method, up) ==
    /\ orefApi.reqs[r].pc = "idle"
    /\ LET g == isRateLimited(buckets, env.isProd, up, <<"oref:ip", "i">>, 10, 30000, now)
           limited == g.thrown = "none" /\ g.limited
           fresh == orefApi.cache.present /\ now < orefApi.cache.expiresAt
       IN orefApi' =
            IF method # "GET"
            THEN [orefApi EXCEPT !.reqs[r] = [@ EXCEPT !.pc = "done", !.status = 405]]
            ELSE IF limited
            THEN [orefApi EXCEPT !.reqs[r] = [@ EXCEPT !.pc = "done", !.status = 429]]
            ELSE IF fresh
            THEN [orefApi EXCEPT !.reqs[r] = [@ EXCEPT !.pc = "done", !.status = 200,
                                                      !.xcache = "HIT",
                                                      !.body = orefApi.cache.body]]
            ELSE [orefApi EXCEPT !.reqs[r] = [@ EXCEPT !.pc = "fetch"],
                              !.fetches = Append(@, now)]
    /\ UNCHANGED <<now, env, members, roles, audit, lock, buckets, rate, calls, boot, upd, bf,
                   daily, sb, rd>>

\* the fetch settles: a rejection is answered 200 "{}" and leaves _cache as
\* it is; a text is validated, stored and answered from _cache
OrefAnswer(r, text) ==
    /\ orefApi.reqs[r].pc = "fetch"
    /\ LET stored == orefStore(orefApi.version, orefApi.cache, text, now)
       IN orefApi' =
            IF text = OrefReject
            THEN [orefApi EXCEPT !.reqs[r] = [@ EXCEPT !.pc = "done", !.status = 200,
                                                      !.body = EmptyObject]]
            ELSE [orefApi EXCEPT !.cache = stored,
                              !.reqs[r] = [@ EXCEPT !.pc = "done", !.status = 200,
                                                      !.xcache = "MISS",
                                                      !.body = stored.body]]
    /\ UNCHANGED <<now, env, members, roles, audit, lock, buckets, rate, calls, boot, upd, bf,
                   daily, sb, rd>>

\* the clock moves by half a cache lifetime
OrefTick ==
    /\ now < MaxTicks * (CACHE_MS \div 2)
    /\ now' = now + (CACHE_MS \div 2)
    /\ UNCHANGED <<env, members, roles, audit, lock, buckets, rate, calls, boot, upd, bf,
                   daily, sb, rd, orefApi>>

\* ------------------------------------------------------------------------
\* SpecOref: three requests to the public alert endpoint of one process,
\* either handler, while the clock runs over a cache lifetime
\* ------------------------------------------------------------------------
OrefTexts ==
    {OrefReject, OrefText("long", 1), OrefText("blank", 1), OrefText("bad", 1),
     OrefText("json", 1), OrefText("json", 2)}

InitOref ==
    /\ now = 0
    /\ audit = [t \in Tenants |-> {}]
    /\ lock = [t \in Tenants |-> NoLock]
    /\ buckets = [k \in BucketKeys |-> NoBucket]
    /\ daily = NoDocs
    /\ sb = [r \in SbIds |-> SbIdle]
    /\ rd = [r \in RdIds |-> RdIdle]
    /\ env \in [isProd : {TRUE}, bootstrapEnabled : {TRUE},
               cronSecret : {CronSecret}, tabitKey : {TRUE}]
    /\ members = EmptyStore
    /\ roles = EmptyStore
    /\ rate = RateIdle
    /\ calls = [c \in CallIds |-> CallIdle]
    /\ boot = [b \in BootIds |-> BootAbsent]
    /\ upd = [r \in UpdIds |-> UpdAbsent]
    /\ bf = [r \in BfIds |-> BfAbsent]
    /\ orefApi \in {OrefIdle("edge"), OrefIdle("node")}

NextOref ==
    \/ \E r \in OrefIds, method \in {"GET", "POST"},
          up \in {UpNull, UpThrow, UpCount(1), UpCount(11)} : OrefArrive(r, method, up)
    \/ \E r \in OrefIds, text \in OrefTexts : OrefAnswer(r, text)
    \/ OrefTick

SpecOref == InitOref /\ [][NextOref]_vars

\* ------------------------------------------------------------------------
\* SpecConverge: the Bootstrap and UpdateRole requests of Spec when every
\* store read and write succeeds
\* ------------------------------------------------------------------------
NextConverge ==
    \/ \E b \in BootIds, auth \in OkAuths : BootArrive(b, "POST", auth, UpCount(1), UpCount(1))
    \/ \E b \in BootIds, tenantId \in ValidTenants, uid \in ValidUids,
          first \in {EmptyMap} \cup {roles[t] : t \in Tenants} :
            BootBody(b, tenantId, uid, first)
    \/ \E b \in BootIds : BootTxRun(b)
    \/ \E b \in BootIds : BootTxSend(b)
    \/ \E b \in BootIds : BootSide(b, TRUE)
    \/ \E r \in UpdIds, auth \in OkAuths : UpdArrive(r, "POST", auth, UpCount(1), UpCount(1))
    \/ \E r \in UpdIds, tenantId \in ValidTenants, targetUid \in ValidUids,
          role \in {JNull, ROwner, RViewer} :
            UpdBody(r, tenantId, targetUid, role)
    \/ \E r \in UpdIds : UpdMemberRead(r, "value")
    \/ \E r \in UpdIds, first \in {EmptyMap} \cup {roles[t] : t \in Tenants} :
            UpdRoleRead(r, "value", first)
    \/ \E r \in UpdIds : UpdTxRun(r)
    \/ \E r \in UpdIds : UpdTxSend(r)
    \/ \E r \in UpdIds : UpdSet(r, TRUE)
    \/ \E r \in UpdIds : UpdSide(r, TRUE)

SpecConverge == Init /\ [][NextConverge]_vars

\* ------------------------------------------------------------------------
\* SpecFrame: one Bootstrap and one UpdateRole request where the store holds
\* the roles, members, audit log and lock of two tenants, and a request
\* names either
\* ------------------------------------------------------------------------
InitFrame ==
    /\ now = 0
    /\ audit = [t \in AllTenants |-> {}]
    /\ lock = [t \in AllTenants |-> NoLock]
    /\ buckets = [k \in BucketKeys |-> NoBucket]
    /\ daily = NoDocs
    /\ sb = [r \in SbIds |-> SbIdle]
    /\ rd = [r \in RdIds |-> RdIdle]
    /\ orefApi = OrefOff
    /\ env \in [isProd : {TRUE}, bootstrapEnabled : {TRUE},
               cronSecret : {CronSecret}, tabitKey : {TRUE}]
    /\ \E m \in [Uids -> StartRoles] :
            roles = [t \in AllTenants |->
                        IF t = TenantT THEN m
                        ELSE [u \in Uids |-> IF u = UidA THEN ROwner ELSE RViewer]]
    /\ members = [t \in AllTenants |-> [u \in Uids |-> IF roles[t][u] = JNull THEN JNull ELSE JTrue]]
    /\ rate = RateIdle
    /\ calls = [c \in CallIds |-> CallIdle]
    /\ boot = [b \in BootIds |-> IF b = 1 THEN BootIdle ELSE BootAbsent]
    /\ upd = [r \in UpdIds |-> IF r = 1 THEN UpdIdle ELSE UpdAbsent]
    /\ bf = [r \in BfIds |-> BfAbsent]

FrameTenants == {JStr(t) : t \in AllTenants}
FrameViews == {EmptyMap} \cup {roles[t] : t \in AllTenants}

NextFrame ==
    \/ \E b \in BootIds, auth \in OkAuths : BootArrive(b, "POST", auth, UpCount(1), UpCount(1))
    \/ \E b \in BootIds, tenantId \in FrameTenants, uid \in ValidUids, first \in FrameViews :
            BootBody(b, tenantId, uid, first)
    \/ \E b \in BootIds : BootTxRun(b)
    \/ \E b \in BootIds : BootTxSend(b)
    \/ \E b \in BootIds : BootTxError(b)
    \/ \E b \in BootIds, ok \in BOOLEAN : BootSide(b, ok)
    \/ \E r \in UpdIds, auth \in OkAuths : UpdArrive(r, "POST", auth, UpCount(1), UpCount(1))
    \/ \E r \in UpdIds, tenantId \in FrameTenants, targetUid \in ValidUids,
          role \in {JNull, ROwner, RViewer} :
            UpdBody(r, tenantId, targetUid, role)
    \/ \E r \in UpdIds : UpdMemberRead(r, "value")
    \/ \E r \in UpdIds, first \in FrameViews : UpdRoleRead(r, "value", first)
    \/ \E r \in UpdIds : UpdTxRun(r)
    \/ \E r \in UpdIds : UpdTxSend(r)
    \/ \E r \in UpdIds : UpdTxError(r)
    \/ \E r \in UpdIds, ok \in BOOLEAN : UpdSet(r, ok)
    \/ \E r \in UpdIds, ok \in BOOLEAN : UpdSide(r, ok)

SpecFrame == InitFrame /\ [][NextFrame]_vars

\* ------------------------------------------------------------------------
\* SpecLock: concurrent Backfill requests of a manager and an owner on one
\* tenant, with store errors in the lock transactions and a process that can
\* be killed inside the loop
\* ------------------------------------------------------------------------
InitLock ==
    /\ InitRest
    /\ env \in [isProd : {TRUE}, bootstrapEnabled : {TRUE},
               cronSecret : {CronSecret}, tabitKey : {TRUE}]
    /\ roles = [t \in Tenants |-> [u \in Uids |-> IF u = UidA THEN RManager ELSE ROwner]]
    /\ members = [t \in Tenants |-> [u \in Uids |-> JTrue]]
    /\ rate = RateIdle
    /\ calls = [c \in CallIds |-> CallIdle]
    /\ boot = [b \in BootIds |-> BootAbsent]
    /\ upd = [r \in UpdIds |-> UpdAbsent]
    /\ bf = [r \in BfIds |-> BfIdle]

NextLock ==
    \/ \E r \in BfIds : BfRun(r, {"POST"}, OkAuths, {UpCount(1)}, ValidTenants,
                              ValidDates, ValidDates, {"value"}, {BeeDown}, {"ok"})
    \/ \E r \in BfIds : BfAcqError(r)
    \/ \E r \in BfIds : BfRelError(r)
    \/ \E r \in BfIds : BfCrash(r)
    \/ Tick

SpecLock == InitLock /\ [][NextLock]_vars

\* SpecLockLive: no store errors; a caller that did not get the lock retries,
\* with a well-formed range; the clock moves on and every request that can
\* take a step eventually takes one
BfProgress(r) ==
    \/ BfRun(r, {"POST"}, OkAuths, {UpCount(1)}, ValidTenants,
             {DateIn(TRUE, 1)}, ValidDates, {"value"}, {BeeDown}, {"ok"})
    \/ BfRetry(r)

NextLockLive ==
    \/ \E r \in BfIds : BfProgress(r)
    \/ \E r \in BfIds : BfCrash(r)
    \/ Tick

SpecLockLive ==
    /\ InitLock /\ [][NextLockLive]_vars
    /\ WF_vars(Tick)
    /\ \A r \in BfIds : WF_vars(BfProgress(r))

\* ------------------------------------------------------------------------
\* SpecAccess: requireTenantAccess called with any arguments on any store
\* content
\* ------------------------------------------------------------------------
MemberVals == {JNull, JTrue, JFalse, JNum(1), JStr(<<"t", "r", "u", "e">>)}
RoleVals == {JNull, RAdmin, JNum(4)} \cup VALID_ROLES

InitAccess ==
    /\ InitRest
    /\ env \in [isProd : {FALSE}, bootstrapEnabled : {TRUE},
               cronSecret : {CronSecret}, tabitKey : {TRUE}]
    /\ \E m \in MemberVals : members = [t \in Tenants |-> [u \in Uids |-> IF u = UidA THEN m ELSE JTrue]]
    /\ \E x \in RoleVals : roles = [t \in Tenants |-> [u \in Uids |-> IF u = UidA THEN x ELSE ROwner]]
    /\ rate = RateIdle
    /\ calls = [c \in CallIds |-> CallIdle]
    /\ boot = [b \in BootIds |-> BootIdle]
    /\ upd = [r \in UpdIds |-> UpdIdle]
    /\ bf = [r \in BfIds |-> BfIdle]

CallNext ==
    \/ \E c \in CallIds, uid \in UidInputs, tenantId \in TenantInputs, minRole \in MinRoleInputs :
            RtaStart(c, uid, tenantId, minRole)
    \/ \E c \in CallIds, outcome \in ReadOutcomes : RtaMemberRead(c, outcome)
    \/ \E c \in CallIds, outcome \in ReadOutcomes : RtaRoleRead(c, outcome)

NextAccess == CallNext

SpecAccess == InitAccess /\ [][NextAccess]_vars

\* ------------------------------------------------------------------------
\* SpecFresh: a requireTenantAccess call for user a while UpdateRole requests
\* of the two owners a and b change each other's role or remove it
\* ------------------------------------------------------------------------
InitFresh ==
    /\ InitRest
    /\ env \in [isProd : {TRUE}, bootstrapEnabled : {TRUE},
               cronSecret : {CronSecret}, tabitKey : {TRUE}]
    /\ roles = [t \in Tenants |-> [u \in Uids |-> ROwner]]
    /\ members = [t \in Tenants |-> [u \in Uids |-> JTrue]]
    /\ rate = RateIdle
    /\ calls = [c \in CallIds |-> CallIdle]
    /\ boot = [b \in BootIds |-> BootAbsent]
    /\ upd = [r \in UpdIds |-> UpdIdle]
    /\ bf = [r \in BfIds |-> BfAbsent]

NextFresh ==
    \/ \E c \in CallIds, minRole \in {ROwner, RManager, RViewer} :
            RtaStart(c, JStr(UidA), JStr(TenantT), minRole)
    \/ \E c \in CallIds, outcome \in {"value", "error"} : RtaMemberRead(c, outcome)
    \/ \E c \in CallIds, outcome \in {"value", "error"} : RtaRoleRead(c, outcome)
    \/ UpdSteps({"POST"}, OkAuths, {UpCount(1)}, ValidTenants, ValidUids,
                {JNull, RViewer, ROwner}, {"value"})

SpecFresh == InitFresh /\ [][NextFresh]_vars

\* ------------------------------------------------------------------------
\* SpecInputs: one requireTenantAccess call with ids of every malformed kind
\* (empty, not a string, too long, each forbidden character) and known and
\* unknown minimum roles
\* ------------------------------------------------------------------------
MalformedIds ==
    {JNull, JStr(<<>>), JNum(7), JNum(0), JFalse, JStr(LongId)}
    \cup {JStr(<<"a", c>>) : c \in RTDB_FORBIDDEN_CHARS}
    \cup {JStr(<<c>>) : c \in RTDB_FORBIDDEN_CHARS}

NextInputs ==
    \/ \E uid \in ValidUids \cup MalformedIds, tenantId \in ValidTenants \cup MalformedIds,
          minRole \in MinRoleInputs \cup {JStr(<<>>), JNum(4)} :
            RtaStart(1, uid, tenantId, minRole)
    \/ \E c \in CallIds, outcome \in ReadOutcomes : RtaMemberRead(c, outcome)
    \/ \E c \in CallIds, outcome \in ReadOutcomes : RtaRoleRead(c, outcome)

SpecInputs == InitAccess /\ [][NextInputs]_vars

InitRate ==
    /\ InitRest
    /\ env \in [isProd : BOOLEAN, bootstrapEnabled : {TRUE},
               cronSecret : {CronSecret}, tabitKey : {TRUE}]
    /\ members = EmptyStore
    /\ roles = EmptyStore
    /\ rate \in {[RateIdle EXCEPT !.limit = l, !.windowMs = w] : l \in 1..MaxLimit, w \in RateWindows}
    /\ calls = [c \in CallIds |-> CallIdle]
    /\ boot = [b \in BootIds |-> BootIdle]
    /\ upd = [r \in UpdIds |-> UpdIdle]
    /\ bf = [r \in BfIds |-> BfIdle]

NextRate ==
    \/ \E k \in TestKeys, up \in UpOutcomes : RateCall(k, up)
    \/ RateTick

SpecRate == InitRate /\ [][NextRate]_vars

\* ------------------------------------------------------------------------
\* SpecWindow: calls of isRateLimited on two keys while time passes; the
\* backend is up and counts, or is not configured
\* ------------------------------------------------------------------------
NextWindow ==
    \/ \E k \in TestKeys : RateCallRedis(k)
    \/ \E k \in TestKeys : RateCall(k, UpNull)
    \/ RateTick

SpecWindow == InitRate /\ [][NextWindow]_vars

\* C10: on the in-process counter, a call returns "limited" exactly when it is
\* beyond the first `limit` calls of its window; the window of a key opens with
\* the first call, or with the first call made later than windowMs after the
\* window's first call, so that call counts as hit 1 and is not limited
C10_RateWindow ==
    (rate.last.called /\ rate.last.memory) =>
        /\ rate.last.thrown = "none"
        /\ rate.last.limited = (rate.hist[rate.last.key].n > rate.limit)
        /\ buckets[rate.last.key].count = rate.hist[rate.last.key].n

\* a key whose earlier window was over its limit is in a later window, and the
\* call that opened it passed
C10_Witness ==
    /\ rate.last.called /\ rate.last.memory /\ ~rate.last.limited
    /\ rate.hist[rate.last.key].over
    /\ rate.hist[rate.last.key].wins >= 2
    /\ rate.hist[rate.last.key].n = 1
    /\ rate.limit = 3

\* ------------------------------------------------------------------------
\* SpecBuild: one authorized ScheduledBuilder run; each upstream answers in
\* any of the ways below, the TABIT_API_KEY is set or not, a write may fail
\* ------------------------------------------------------------------------
BeeAnswers ==
    {BeeOk(100, 4), BeeOk(0, 0), FetchFail("network"), FetchFail("timeout"),
     FetchHttp(503, BadJson), FetchHttp(404, JsonObj(BeeOk(7, 1).body.raw)),
     FetchHttp(200, BadJson)}
TabitAnswers == {TabitOk(8), FetchFail("timeout"), FetchHttp(503, BadJson), FetchHttp(200, BadJson)}
WeatherAnswers == {WeatherOk(2), FetchFail("timeout"), FetchFail("network"), FetchHttp(503, BadJson)}
OrefAnswers == {OrefOk, FetchFail("timeout"), FetchHttp(503, BadJson), FetchHttp(200, JsonArr)}
BuildAnswers ==
    {Answers(b, t, w, o) : b \in BeeAnswers, t \in TabitAnswers, w \in WeatherAnswers,
                           o \in OrefAnswers}
TenantLists == {<<>>, <<TenantT>>, <<TenantT, TenantU>>}

InitBuild ==
    /\ InitRest
    /\ env \in [isProd : {TRUE}, bootstrapEnabled : {TRUE},
                 cronSecret : {CronSecret}, tabitKey : BOOLEAN]
    /\ members = EmptyStore
    /\ roles = EmptyStore
    /\ rate = RateIdle
    /\ calls = [c \in CallIds |-> CallIdle]
    /\ boot = [b \in BootIds |-> BootAbsent]
    /\ upd = [r \in UpdIds |-> UpdAbsent]
    /\ bf = [r \in BfIds |-> BfAbsent]

NextBuild ==
    SbSteps(1, {CronSecret}, {<<>>}, {DateIn(TRUE, 1)}, {"value"}, TenantLists,
            BuildAnswers, {"ok", "error"})

SpecBuild == InitBuild /\ [][NextBuild]_vars

\* ------------------------------------------------------------------------
\* SpecCalendar: one ScheduledBuilder request for any day from 2024-09-29 to
\* 2027-01-02, one tenant, every provider up
\* ------------------------------------------------------------------------
CalendarDays == 0..DayOf(2027, 1, 2)

NextCalendar ==
    SbSteps(1, {CronSecret}, {<<>>}, {DateIn(TRUE, d) : d \in CalendarDays}, {"value"},
            {<<TenantT>>}, {AllOk}, {"ok"})

SpecCalendar == InitBuild /\ [][NextCalendar]_vars

\* ------------------------------------------------------------------------
\* SpecSched: ScheduledBuilder requests side by side, with CRON_SECRET set or
\* not, sending any of the secrets below in either header
\* ------------------------------------------------------------------------
SecretsSent == {<<>>, CronSecret, <<"s", "2">>, <<"s">>}
AuthzSent == {<<>>, Bearer \o CronSecret, Bearer \o <<"x", "y">>}
\* a second day: less revenue, no rain, and the labor and alert providers down
OtherDay ==
    Answers(BeeOk(50, 2), FetchFail("timeout"), WeatherOk(0), FetchHttp(503, BadJson))

InitSched ==
    /\ InitRest
    /\ env \in [isProd : {TRUE}, bootstrapEnabled : {TRUE},
                 cronSecret : {<<>>, CronSecret}, tabitKey : {TRUE}]
    /\ members = EmptyStore
    /\ roles = EmptyStore
    /\ rate = RateIdle
    /\ calls = [c \in CallIds |-> CallIdle]
    /\ boot = [b \in BootIds |-> BootAbsent]
    /\ upd = [r \in UpdIds |-> UpdAbsent]
    /\ bf = [r \in BfIds |-> BfAbsent]

NextSched ==
    \E r \in SbIds :
        SbSteps(r, SecretsSent, AuthzSent, {DateIn(TRUE, 1), DateIn(FALSE, 1)},
                {"value", "error"}, TenantLists, {AllOk, OtherDay, BeeDown}, {"ok", "error"})

SpecSched == InitSched /\ [][NextSched]_vars

\* ------------------------------------------------------------------------
\* SpecDrivers: one Backfill request of a manager and one authorized
\* ScheduledBuilder run side by side; the required upstream is up or down
\* and a write may fail
\* ------------------------------------------------------------------------
InitDrivers ==
    /\ InitRest
    /\ env \in [isProd : {TRUE}, bootstrapEnabled : {TRUE},
                 cronSecret : {CronSecret}, tabitKey : {TRUE}]
    /\ members = [t \in Tenants |-> [u \in Uids |-> JTrue]]
    /\ roles = [t \in Tenants |-> [u \in Uids |-> IF u = UidA THEN RManager ELSE ROwner]]
    /\ rate = RateIdle
    /\ calls = [c \in CallIds |-> CallIdle]
    /\ boot = [b \in BootIds |-> BootAbsent]
    /\ upd = [r \in UpdIds |-> UpdAbsent]
    /\ bf = [r \in BfIds |-> IF r = 1 THEN BfIdle ELSE BfAbsent]

NextDrivers ==
    \/ BfRun(1, {"POST"}, OkAuths, {UpCount(1)}, ValidTenants, ValidDates, ValidDates,
             {"value"}, {AllOk, BeeDown}, {"ok", "error"})
    \/ SbSteps(1, {CronSecret}, {<<>>}, {DateIn(TRUE, 1)}, {"value"}, TenantLists,
               {AllOk, BeeDown}, {"ok", "error"})

SpecDrivers == InitDrivers /\ [][NextDrivers]_vars

\* ------------------------------------------------------------------------
\* SpecWriters: one Backfill request and two ScheduledBuilder runs that
\* build the same tenant and date side by side from different upstream
\* answers
\* ------------------------------------------------------------------------
WriterAnswers == {AllOk, OtherDay}

NextWriters ==
    \/ BfRun(1, {"POST"}, OkAuths, {UpCount(1)}, ValidTenants, ValidDates, ValidDates,
             {"value"}, WriterAnswers, {"ok", "error"})
    \/ \E r \in SbIds :
        SbSteps(r, {CronSecret}, {<<>>}, {DateIn(TRUE, 1)}, {"value"}, {<<TenantT>>},
                WriterAnswers, {"ok", "error"})

SpecWriters == InitDrivers /\ [][NextWriters]_vars

\* ------------------------------------------------------------------------
\* SpecRange: Backfill requests over ranges of 2, MAX_DAYS and MAX_DAYS + 1
\* days, with every upstream up
\* ------------------------------------------------------------------------
RangeEnds == {DateIn(TRUE, 2), DateIn(TRUE, MAX_DAYS), DateIn(TRUE, MAX_DAYS + 1)}

NextRange ==
    \E r \in BfIds :
        BfRun(r, {"POST"}, OkAuths, {UpCount(1)}, ValidTenants, {DateIn(TRUE, 1)}, RangeEnds,
              {"value"}, {AllOk}, {"ok"})

SpecRange == InitLock /\ [][NextRange]_vars

\* ------------------------------------------------------------------------
\* SpecGated: one UpdateRole, one Backfill and one gated read side by side,
\* by callers of any role or none, members or not, with or without a valid
\* token, with store reads that can fail
\* ------------------------------------------------------------------------
GatedRoles == VALID_ROLES \cup {JNull}
ReadMethods == {"GET", "POST", "OPTIONS"}
PathInputs == {"/v1/reports/sales", "/v1/labor/daily", ""}

InitGated ==
    /\ InitRest
    /\ env \in [isProd : {TRUE}, bootstrapEnabled : {TRUE},
                 cronSecret : {CronSecret}, tabitKey : {TRUE}]
    /\ \E x \in GatedRoles :
            roles = [t \in Tenants |-> [u \in Uids |-> IF u = UidA THEN x ELSE ROwner]]
    /\ \E m \in {JTrue, JNull} :
            members = [t \in Tenants |-> [u \in Uids |-> IF u = UidA THEN m ELSE JTrue]]
    /\ rate = RateIdle
    /\ calls = [c \in CallIds |-> CallIdle]
    /\ boot = [b \in BootIds |-> BootAbsent]
    /\ upd = [r \in UpdIds |-> IF r = 1 THEN UpdIdle ELSE UpdAbsent]
    /\ bf = [r \in BfIds |-> IF r = 1 THEN BfIdle ELSE BfAbsent]

\* the token of UidA, or none
GatedAuths == {a \in AuthOutcomes : a.uid = UidA}

NextGated ==
    \/ UpdSteps(Methods, OkAuths, {UpCount(1)}, ValidTenants, {JStr(UidA)},
                {JNull, RShiftManager, ROwner}, StoreOutcomes)
    \/ BfRun(1, Methods, GatedAuths, {UpCount(1)}, ValidTenants, {DateIn(TRUE, 1)},
             {DateIn(TRUE, 1)}, StoreOutcomes, {AllOk, BeeDown}, {"ok"})
    \/ RdSteps(RdOps, ReadMethods, GatedAuths, {UpCount(1)}, {JStr(TenantT), JNull},
               PathInputs, {DateIn(TRUE, 1), NoDate}, StoreOutcomes, {AllOk, BeeDown})

SpecGated == InitGated /\ [][NextGated]_vars

\* ------------------------------------------------------------------------
\* SpecCheck: one analytics check by a caller of any role or none, with or
\* without a valid token, inside or outside production, next to a
\* ScheduledBuilder run that stores documents
\* ------------------------------------------------------------------------
InitCheck ==
    /\ InitRest
    /\ env \in [isProd : BOOLEAN, bootstrapEnabled : {TRUE},
                 cronSecret : {CronSecret}, tabitKey : {TRUE}]
    /\ \E x \in {JNull, RViewer, RManager} :
            roles = [t \in Tenants |-> [u \in Uids |-> IF u = UidA THEN x ELSE ROwner]]
    /\ members = [t \in Tenants |-> [u \in Uids |-> JTrue]]
    /\ rate = RateIdle
    /\ calls = [c \in CallIds |-> CallIdle]
    /\ boot = [b \in BootIds |-> BootAbsent]
    /\ upd = [r \in UpdIds |-> UpdAbsent]
    /\ bf = [r \in BfIds |-> BfAbsent]

NextCheck ==
    \/ SbSteps(1, {CronSecret}, {<<>>}, {DateIn(TRUE, 1)}, {"value"}, {<<TenantT>>},
               {AllOk, OtherDay}, {"ok"})
    \/ RdSteps({"check"}, {"GET", "POST"}, GatedAuths, {UpNull, UpCount(1), UpCount(11)},
               {JStr(TenantT), JNull}, {""}, {DateIn(TRUE, 1), NoDate}, StoreOutcomes,
               {AllOk, OtherDay, BeeDown})

SpecCheck == InitCheck /\ [][NextCheck]_vars

\* ------------------------------------------------------------------------
\* SpecFlag: Bootstrap requests of any method, with and without a valid
\* token, outside production, with the feature flag on or off
\* ------------------------------------------------------------------------
InitFlag ==
    /\ InitRest
    /\ env \in [isProd : {FALSE}, bootstrapEnabled : BOOLEAN,
                 cronSecret : {CronSecret}, tabitKey : {TRUE}]
    /\ roles \in [Tenants -> [Uids -> {JNull, RViewer}]]
    /\ members = [t \in Tenants |-> [u \in Uids |-> IF roles[t][u] = JNull THEN JNull ELSE JTrue]]
    /\ rate = RateIdle
    /\ calls = [c \in CallIds |-> CallIdle]
    /\ boot = [b \in BootIds |-> BootIdle]
    /\ upd = [r \in UpdIds |-> UpdAbsent]
    /\ bf = [r \in BfIds |-> BfAbsent]

NextFlag == BootSteps(Methods, AuthOutcomes, HandlerUps, ValidTenants, ValidUids)

SpecFlag == InitFlag /\ [][NextFlag]_vars

\* ------------------------------------------------------------------------
\* Claims on requireTenantAccess (SpecAccess)
\* ------------------------------------------------------------------------
\* C3: a call whose membership read or role read rejected or timed out has
\* thrown status 503 and has returned no role
C3_FailClosed ==
    \A c \in CallIds :
        calls[c].failed # "none" =>
            /\ calls[c].pc = "done"
            /\ calls[c].status = 503
            /\ calls[c].ret = JNull

\* a call whose membership read passed and whose role read then failed
C3_Witness ==
    \E c \in CallIds :
        /\ calls[c].failed = "role"
        /\ calls[c].reads = 2
        /\ calls[c].status = 503
        /\ roles[calls[c].tenantId.v][calls[c].uid.v] = ROwner

\* owner > manager > shift_manager > viewer, as the position in this order
RoleOrder == <<RViewer, RShiftManager, RManager, ROwner>>
PositionOf(r) == CHOOSE i \in 1..Len(RoleOrder) : RoleOrder[i] = r

\* the store content that grants call c access
Grants(c) ==
    LET u == calls[c].uid.v
        t == calls[c].tenantId.v
    IN /\ members[t][u] = JTrue
       /\ roles[t][u] \in VALID_ROLES
       /\ PositionOf(roles[t][u]) >= PositionOf(calls[c].minRole)

\* C4: a finished call whose arguments were valid and whose reads both
\* delivered returns the stored role when the store grants access, and
\* otherwise throws 403 and returns nothing; no call returns a role the store
\* does not grant
C4_AccessDecision ==
    \A c \in CallIds :
        /\ calls[c].ret # JNull =>
                /\ calls[c].pc = "done" /\ calls[c].status = 0
                /\ Grants(c)
                /\ calls[c].ret = roles[calls[c].tenantId.v][calls[c].uid.v]
        /\ (calls[c].pc = "done" /\ calls[c].status # 400 /\ calls[c].failed = "none") =>
                IF Grants(c)
                THEN calls[c].status = 0 /\ calls[c].ret = roles[calls[c].tenantId.v][calls[c].uid.v]
                ELSE calls[c].status = 403 /\ calls[c].ret = JNull

\* a manager asking for shift_manager access is returned "manager"
C4_Witness ==
    \E c \in CallIds :
        /\ calls[c].pc = "done"
        /\ calls[c].ret = RManager
        /\ calls[c].minRole = RShiftManager


\* ------------------------------------------------------------------------
\* Claims on the role map (Spec, SpecBootstrap)
\* ------------------------------------------------------------------------
\* C1: a tenant whose role map holds an owner holds an owner after every step
\* of every Bootstrap and UpdateRole request
C1_OwnerNeverLost ==
    [][\A t \in Tenants : OwnersOf(roles[t]) # {} => OwnersOf(roles'[t]) # {}]_vars

\* two UpdateRole requests raced on the owners: one has committed the
\* downgrade or removal of an owner, the other was refused as the last owner
C1_Witness ==
    \E r, q \in UpdIds :
        /\ upd[r].pc = "side" /\ upd[r].role # ROwner
        /\ upd[q].pc = "done" /\ upd[q].status = 409
        /\ Cardinality(OwnersOf(roles[upd[r].tenantId])) = 1

BootWith(status) == {b \in BootIds : boot[b].pc = "done" /\ boot[b].status = status}

\* C2: of the concurrent Bootstrap requests on a tenant without an owner, at
\* most one is answered 200 at any time; once all are answered and none met a
\* store error, those that ran the transaction got one 200 and otherwise 409,
\* and the role map holds exactly one owner
C2_OneBootstrapWins ==
    /\ Cardinality(BootWith(200)) <= 1
    /\ ((\A b \in BootIds : boot[b].pc = "done")
            /\ BootWith(503) = {} /\ BootWith(200) \cup BootWith(409) # {}) =>
                /\ Cardinality(BootWith(200)) = 1
                /\ BootWith(200) \cup BootWith(409) \cup BootWith(403) = BootIds
                /\ \A t \in Tenants : Cardinality(OwnersOf(roles[t])) = 1

\* every request ran the transaction: one got 200 and the others 409
C2_Witness ==
    /\ Cardinality(BootWith(200)) = 1
    /\ BootWith(200) \cup BootWith(409) = BootIds
    /\ Cardinality(BootIds) >= 2

\* C9: (a) when the update function of an UpdateRole transaction runs on a
\* role map whose only owner is the target, the request ends with 409
\* "last-owner" (or 503 if the transaction rejects) and the role map, the
\* membership flags and the audit log stay as they are; (b) no UpdateRole
\* transaction commits on a stored role map whose only owner is its target
C9_LastOwnerAbort ==
    [][\A r \in UpdIds :
        /\ (upd[r].pc = "tx_run" /\ OwnersOf(upd[r].view) = {upd[r].targetUid}
                /\ upd'[r] # upd[r]) =>
                    /\ upd'[r] \in {UpdDone(409, "last-owner"), UpdDone(503, "none")}
                    /\ roles' = roles /\ members' = members /\ audit' = audit
        /\ (upd[r].pc = "tx_send" /\ upd'[r].pc = "side") =>
                OwnersOf(roles[upd[r].tenantId]) # {upd[r].targetUid}
      ]_vars

\* a request was refused as the last owner while the tenant has one owner
C9_Witness ==
    \E r \in UpdIds :
        /\ upd[r] = UpdDone(409, "last-owner")
        /\ \A t \in Tenants : Cardinality(OwnersOf(roles[t])) = 1

\* ------------------------------------------------------------------------
\* Claims on the backfill lock (SpecLock, SpecLockLive)
\* ------------------------------------------------------------------------
\* request r acquired the lock, its release has not deleted the record, and
\* the lease it wrote has not expired
Holds(r) == bf[r].lockId # 0 /\ ~bf[r].released /\ now < bf[r].expiresAt

LockValid(t) == lock[t].present /\ now < lock[t].expiresAt

\* C5: at most one request holds a lease that has not expired; a step of an
\* acquire made while the stored record has now < expiresAt leaves the record
\* as it is and gives the request no token, and when the update function runs
\* on that record the request is refused (409)
C5_OneHolder ==
    /\ [](Cardinality({r \in BfIds : Holds(r)}) <= 1)
    /\ [][\A r \in BfIds :
            (bf[r].pc \in {"acq_run", "acq_send"} /\ LockValid(bf[r].tenantId)
                /\ bf'[r] # bf[r]) =>
                    /\ lock' = lock
                    /\ bf'[r].lockId = 0
                    /\ (bf[r].pc = "acq_run" /\ bf[r].view = lock[bf[r].tenantId]) =>
                            (bf'[r].pc = "done" /\ bf'[r].status = 409)
         ]_vars

\* a request was refused while another one, inside its loop, holds the lease
C5_Witness ==
    \E r, q \in BfIds :
        /\ bf[q].pc = "loop" /\ Holds(q) /\ lock[bf[q].tenantId].lockId = q
        /\ bf[r].pc = "done" /\ bf[r].status = 409 /\ bf[r].logged = "none"

\* the lock record of request h, which was killed inside its loop
Stuck(h) ==
    /\ bf[h].pc = "crashed"
    /\ lock[bf[h].tenantId].present /\ lock[bf[h].tenantId].lockId = h

\* C6: (a) an acquire whose update function runs on a record with
\* now >= expiresAt sends a new record, and the store commits it when the path
\* still holds the record it ran on: the request gets a token other than the
\* stored one; (b) when a holder was killed before its release and some caller
\* that holds no token keeps retrying, the lock is eventually acquired again
C6_DeadHolderHeals ==
    /\ [][\A r \in BfIds :
            /\ (bf[r].pc = "acq_run" /\ bf[r].view.present
                    /\ now >= bf[r].view.expiresAt /\ bf'[r] # bf[r]) =>
                        bf'[r].pc = "acq_send"
            /\ (bf[r].pc = "acq_send" /\ lock[bf[r].tenantId] = bf[r].view
                    /\ bf'[r] # bf[r]) =>
                        /\ bf'[r].pc = "loop" /\ bf'[r].lockId = r
                        /\ lock'[bf[r].tenantId].present
                        /\ lock'[bf[r].tenantId].lockId = r
                        /\ lock[bf[r].tenantId].present => lock[bf[r].tenantId].lockId # r
         ]_vars
    /\ \A h \in BfIds :
            (Stuck(h) /\ \E r \in BfIds : bf[r].lockId = 0 /\ bf[r].pc # "crashed")
                ~> (lock[TenantT].present /\ lock[TenantT].lockId # h)

\* the record of a killed holder expired and another request acquired the lock
C6_Witness ==
    \E h, r \in BfIds :
        /\ bf[h].pc = "crashed" /\ bf[h].lockId = h /\ now >= bf[h].expiresAt
        /\ r # h /\ bf[r].lockId = r
        /\ lock[TenantT].present /\ lock[TenantT].lockId = r

\* C7: a step of a release made while the stored record carries another
\* token leaves the record as it is; a release changes the lock only by
\* deleting a record that carries the caller's token
C7_StaleReleaseNoOp ==
    [][\A r \in BfIds :
        (bf[r].pc \in {"rel_run", "rel_send"} /\ bf'[r] # bf[r]) =>
            /\ (lock[bf[r].tenantId].present
                    /\ lock[bf[r].tenantId].lockId # bf[r].lockId) => lock' = lock
            /\ lock' # lock =>
                    /\ lock[bf[r].tenantId].present
                    /\ lock[bf[r].tenantId].lockId = bf[r].lockId
                    /\ lock' = [lock EXCEPT ![bf[r].tenantId] = NoLock]
      ]_vars

\* a request whose lease expired released after another request acquired the
\* lock: its release aborted on the new holder's record, which is still stored
C7_Witness ==
    \E r, q \in BfIds :
        /\ r # q
        /\ bf[r].pc = "done" /\ bf[r].status = 200 /\ bf[r].lockId = r /\ ~bf[r].released
        /\ bf[r].view.present /\ bf[r].view.lockId = q
        /\ lock[TenantT] = bf[r].view
        /\ bf[q].pc = "loop" /\ Holds(q)

\* C8: no two Backfill requests of a tenant are inside the loop over the
\* dates at once, and a refused request has built nothing
C8_Serialized ==
    /\ Cardinality({r \in BfIds : bf[r].pc = "loop"}) <= 1
    /\ \A r \in BfIds : (bf[r].pc = "done" /\ bf[r].status = 409) =>
            bf[r].built = <<>> /\ bf[r].skipped = <<>>

\* ------------------------------------------------------------------------
\* Claims on buildDailyDoc and its drivers (SpecBuild)
\* ------------------------------------------------------------------------
\* the required provider fails in one of the three ways
BeeFailed(a) == a.kind \in {"network", "timeout"} \/ (a.kind = "http" /\ ~(a.status \in 200..299))

\* request r has just built for one tenant
Built(r) == sb'[r].idx = sb[r].idx + 1

\* C11: when the required revenue provider fails by a network error, a
\* timeout or a non-success status, buildDailyDoc rejects with
\* { source: "beecomm", reason } where reason is "network", "timeout" or
\* http_<status>; it returns no path and no document, and the driver writes
\* nothing for that tenant and date
C11_RequiredFailure ==
    [][\A r \in SbIds :
        (Built(r) /\ BeeFailed(sb'[r].last.up.beecomm)) =>
            LET a == sb'[r].last.up.beecomm
                res == sb'[r].last.res
            IN /\ ~res.ok
               /\ res.source = "beecomm"
               /\ res.reason = IF a.kind = "http" THEN [kind |-> "http_", status |-> a.status]
                                ELSE [kind |-> a.kind, status |-> 0]
               /\ DOMAIN res \cap {"path", "doc", "value"} = {}
               /\ daily' = daily
               /\ sb'[r].built = sb[r].built]_vars

C11_Witness ==
    \E r \in SbIds :
        /\ sb[r].last # NoBuild
        /\ sb[r].last.up.beecomm = FetchHttp(503, BadJson)
        /\ sb[r].last.res = Thrown("beecomm", Reason("http_", 503))
        /\ Len(sb[r].skipped) = 2

\* the required provider answers with a success status and a JSON object
BeeSucceeded(a) == a.kind = "http" /\ a.status \in 200..299 /\ a.body.t = "obj"

\* an optional provider fails: a network error, a timeout, a failed status
OptFailed(a) == a.kind \in {"network", "timeout"} \/ (a.kind = "http" /\ ~(a.status \in 200..299))

\* the blocks and the statuses of doc and ref agree outside one source
SameOthers(doc, ref, block, source) ==
    /\ \A f \in {"revenue_total", "tickets", "avg_check", "revenue_delivery", "hourly",
                  "weather", "alerts", "calendar", "staffing"} \ {block} : doc[f] = ref[f]
    /\ \A x \in {"beecomm", "weather", "oref", "tabit"} \ {source} :
            doc.meta.sources[x] = ref.meta.sources[x]

\* the latest build of request r returned a document in which the block of
\* every failed optional provider is null (for the labor provider: the given
\* staffing block), its status is "missing", and all the rest is what the
\* same build gives when that provider succeeds
OptionalFailureHolds(r, staffing) ==
    LET l == sb[r].last
        doc == l.res.doc
        Ref(up) == buildDailyDoc(sb[r].tenants[sb[r].idx], sb[r].date, env.tabitKey, up, now).doc
    IN  (l # NoBuild /\ BeeSucceeded(l.up.beecomm)) =>
            /\ OptFailed(l.up.weather) =>
                    /\ l.res.ok
                    /\ doc.weather = JNull
                    /\ doc.meta.sources.weather = "missing"
                    /\ SameOthers(doc, Ref([l.up EXCEPT !.weather = WeatherOk(2)]),
                                  "weather", "weather")
            /\ OptFailed(l.up.oref) =>
                    /\ l.res.ok
                    /\ doc.alerts = JNull
                    /\ doc.meta.sources.oref = "missing"
                    /\ SameOthers(doc, Ref([l.up EXCEPT !.oref = OrefOk]), "alerts", "oref")
            /\ OptFailed(l.up.tabit) =>
                    /\ l.res.ok
                    /\ doc.staffing = staffing
                    /\ doc.meta.sources.tabit = "missing"
                    /\ SameOthers(doc, Ref([l.up EXCEPT !.tabit = TabitOk(8)]),
                                  "staffing", "tabit")

BuiltFor(r) == sb[r].tenants[sb[r].idx + 1]

\* C13: a build written over a stored document of the same tenant and date
\* leaves exactly the document of that build: every block that is null or
\* absent in it is absent in the store, whatever the earlier build stored
C13_SecondBuildReplaces ==
    [][\A r \in SbIds :
        (/\ Built(r)
         /\ sb'[r].last.wrote
         /\ sb[r].date \in DOMAIN daily[BuiltFor(r)]) =>
            LET doc == sb'[r].last.res.doc
                stored == daily'[BuiltFor(r)][sb[r].date]
            IN /\ \A f \in DOMAIN doc \ {"staffing"} : stored[f] = doc[f]
               /\ stored.staffing = IF doc.staffing.total_hours = JNull THEN JNull
                                     ELSE doc.staffing
               /\ DOMAIN stored = DOMAIN doc]_vars

C13_Witness ==
    /\ sb[1].pc = "done" /\ sb[1].last.wrote /\ sb[1].last.up = AllOk
    /\ sb[2].pc = "done" /\ sb[2].last.wrote /\ sb[2].last.up = OtherDay
    /\ sb[1].tenants = <<TenantT>> /\ sb[2].tenants = <<TenantT>>
    /\ sb[1].date = sb[2].date
    /\ daily[TenantT][sb[2].date].staffing = JNull
    /\ daily[TenantT][sb[2].date].alerts = JNull
    /\ daily[TenantT][sb[2].date].revenue_total = JNum(50)
    /\ sb[1].last.res.doc.alerts # JNull

\* no trace of a run in request r: no tenant list read, nothing built,
\* skipped or written
NoRun(r) ==
    /\ ~sb[r].listed
    /\ sb[r].last = NoBuild
    /\ sb[r].built = <<>> /\ sb[r].skipped = <<>>

\* C17: with CRON_SECRET unset or empty every ScheduledBuilder request is
\* answered 503, whatever secret it sends, without reading the tenant list,
\* building or writing
C17_UnsetFailsClosed ==
    Len(env.cronSecret) = 0 =>
        /\ daily = NoDocs
        /\ \A r \in SbIds :
                /\ sb[r].pc \in {"idle", "done"}
                /\ sb[r].pc = "done" => (sb[r].status = 503 /\ NoRun(r))

C17_Witness ==
    /\ Len(env.cronSecret) = 0
    /\ sb[1].pc = "done" /\ sb[1].incoming = <<>> /\ sb[1].status = 503
    /\ sb[2].pc = "done" /\ sb[2].incoming = CronSecret /\ sb[2].status = 503

\* C18: with CRON_SECRET set, a request that sends no secret or another
\* secret (in length or in content) is answered 404 without reading the
\* tenant list, building or writing; only requests that sent the configured
\* secret build and write
C18_WrongSecretNotFound ==
    Len(env.cronSecret) > 0 =>
        \A r \in SbIds :
            /\ (sb[r].pc # "idle" /\ sb[r].incoming # env.cronSecret) =>
                    (sb[r].pc = "done" /\ sb[r].status = 404 /\ NoRun(r))
            /\ ~NoRun(r) => sb[r].incoming = env.cronSecret

C18_Witness ==
    /\ Len(env.cronSecret) > 0
    /\ sb[1].pc = "done" /\ sb[1].incoming = <<"s", "2">> /\ sb[1].status = 404
    /\ sb[2].pc = "done" /\ sb[2].incoming = env.cronSecret /\ sb[2].status = 200
    /\ sb[2].last.wrote
    /\ daily # NoDocs

\* ------------------------------------------------------------------------
\* Claims on the loops of the two drivers (SpecDrivers)
\* ------------------------------------------------------------------------
\* one pass of a loop from q to q2 over item, which names the document of
\* tenant t and date d: the item is pushed to built after its document was
\* written, or to skipped with the reason of the failure and nothing written
LoopPass(q, q2, item, t, d) ==
    LET l == q2.last
        reason == IF l.res.ok THEN [source |-> "", reason |-> [kind |-> "message", status |-> 0]]
                  ELSE [source |-> l.res.source, reason |-> l.res.reason]
    IN  IF l.res.ok /\ l.wrote
        THEN /\ q2.built = Append(q.built, item)
             /\ q2.skipped = q.skipped
             /\ d \in DOMAIN daily'[t]
             /\ daily'[t][d] = rtdbValue(l.res.doc)
        ELSE /\ q2.built = q.built
             /\ q2.skipped = Append(q.skipped, [item |-> item, reason |-> reason])
             /\ daily' = daily

\* every item is once in built or skipped, and nothing else is
Partition(built, skipped, items) ==
    LET all == built \o [i \in 1..Len(skipped) |-> skipped[i].item]
    IN  /\ Len(all) = Len(items)
        /\ \A i \in 1..Len(items) : Cardinality({j \in 1..Len(all) : all[j] = items[i]}) = 1

\* C15: in the loop of Backfill (over dates) and of ScheduledBuilder (over
\* tenants) a failed build or write pushes the item with its reason to
\* skipped and the loop goes on; at the response every item is in exactly
\* one of built and skipped, and an item is in built only if its document
\* was written
C15_LoopAccounting ==
    [][/\ \A r \in BfIds :
            /\ (bf[r].pc = "loop" /\ bf'[r].idx = bf[r].idx + 1) =>
                    /\ LoopPass(bf[r], bf'[r], bf[r].from + bf[r].idx, bf[r].tenantId,
                                bf[r].from + bf[r].idx)
                    /\ bf'[r].pc = IF bf'[r].idx < bf[r].ndates THEN "loop" ELSE "rel_run"
            /\ (bf[r].pc # "done" /\ bf'[r].pc = "done" /\ bf'[r].status = 200) =>
                    Partition(bf'[r].built, bf'[r].skipped,
                              [i \in 1..bf'[r].ndates |-> bf'[r].from + i - 1])
       /\ \A r \in SbIds :
            /\ Built(r) =>
                    /\ LoopPass(sb[r], sb'[r], BuiltFor(r), BuiltFor(r), sb[r].date)
                    /\ sb'[r].pc = IF sb'[r].idx < Len(sb[r].tenants) THEN "loop" ELSE "done"
            /\ (sb[r].pc # "done" /\ sb'[r].pc = "done" /\ sb'[r].status = 200) =>
                    Partition(sb'[r].built, sb'[r].skipped, sb'[r].tenants)]_vars

C15_Witness ==
    /\ bf[1].pc = "done" /\ bf[1].status = 200
    /\ bf[1].built = <<2>>
    /\ bf[1].skipped = <<[item |-> 1, reason |-> [source |-> "beecomm",
                                                  reason |-> Reason("http_", 503)]]>>
    /\ sb[1].pc = "done" /\ sb[1].status = 200
    /\ sb[1].built = <<TenantU>>
    /\ sb[1].skipped = <<[item |-> TenantT,
                          reason |-> [source |-> "", reason |-> Reason("message", 0)]]>>

\* ------------------------------------------------------------------------
\* Claims on the Backfill handler (SpecRange, SpecLock)
\* ------------------------------------------------------------------------
\* C14: a Backfill request whose range holds more than MAX_DAYS dates is
\* answered 400 and never gets past the validation: no access check, no lock
\* acquisition, no build and no write; a range of exactly MAX_DAYS dates is
\* not answered 400
C14_RangeBound ==
    \A r \in BfIds :
        /\ bf[r].ndates > MAX_DAYS =>
                /\ bf[r].pc = "done" /\ bf[r].status = 400
                /\ bf[r].rta = JNull
                /\ bf[r].lockId = 0 /\ bf[r].view = NoLock
                /\ bf[r].last = NoBuild
                /\ bf[r].built = <<>> /\ bf[r].skipped = <<>>
        /\ bf[r].ndates = MAX_DAYS => ~(bf[r].pc = "done" /\ bf[r].status = 400)

C14_Witness ==
    \E r, q \in BfIds :
        /\ bf[r].pc = "done" /\ bf[r].status = 400 /\ bf[r].ndates = MAX_DAYS + 1
        /\ bf[q].pc = "done" /\ bf[q].status = 200 /\ bf[q].ndates = MAX_DAYS
        /\ Len(bf[q].built) = MAX_DAYS
        /\ DOMAIN daily[TenantT] = 1..MAX_DAYS

\* C16: once a Backfill request has acquired the lock and has finished, the
\* stored lock record does not carry its token
C16_TokenGone ==
    \A r \in BfIds, t \in Tenants :
        (bf[r].pc = "done" /\ bf[r].lockId # 0) =>
            ~(lock[t].present /\ lock[t].lockId = bf[r].lockId)

\* ------------------------------------------------------------------------
\* Claims on the Bootstrap feature flag (SpecFlag)
\* ------------------------------------------------------------------------
\* C20: while the feature flag is off, the only thing a Bootstrap request
\* does is to answer 404: whatever its method and token, it changes no rate
\* window, no role map (so it creates no owner), no membership and no audit
\* entry
C20_FlagOffNotFound ==
    [][~env.bootstrapEnabled =>
        /\ buckets' = buckets
        /\ roles' = roles /\ members' = members /\ audit' = audit
        /\ \A b \in BootIds : boot'[b] # boot[b] =>
                (boot[b].pc = "idle" /\ boot'[b] = BootDone(404))]_vars

C20_Witness ==
    /\ ~env.bootstrapEnabled
    /\ \A b \in BootIds : boot[b] = BootDone(404)
    /\ \A t \in Tenants, u \in Uids : roles[t][u] = JNull
    /\ \A k \in BucketKeys : ~buckets[k].present

\* ------------------------------------------------------------------------
\* Claims on the order of authorization and effects (SpecGated)
\* ------------------------------------------------------------------------
\* requireTenantAccess returned this role, and it is at least `min`
Cleared(role, min) == role \in VALID_ROLES /\ PositionOf(role) >= PositionOf(min)

\* the minimum role of a gated read: manager for the POS read and for the
\* analytics check, shift_manager for the shift data read
ReadMinimum(op) == IF op = "tabit" THEN RShiftManager ELSE RManager

\* the places of a request from which it mutates the role map, acquires or
\* releases the lock, writes analytics or calls an upstream provider
UpdActing == {"tx_run", "tx_send", "set", "side"}
BfActing == {"acq_run", "acq_send", "loop", "rel_run", "rel_send"}
RdActing == {"fetch", "stored"}

\* C19: a request of a tenant-gated operation is at a place where it
\* mutates, locks, writes or calls upstream only after its own
\* requireTenantAccess has returned a role of at least the operation's
\* minimum (owner for update role, manager for backfill, POS read and check,
\* shift_manager for the shift data read); and every change of the role map,
\* the member map, the audit log, the lock or the analytics documents, and
\* every upstream call, is a step of such a request
C19_AccessBeforeEffects ==
    /\ [](/\ \A r \in UpdIds : upd[r].pc \in UpdActing => Cleared(upd[r].rta, ROwner)
          /\ \A r \in BfIds : bf[r].pc \in BfActing => Cleared(bf[r].rta, RManager)
          /\ \A r \in RdIds : (rd[r].pc \in RdActing \/ rd[r].called) =>
                                    Cleared(rd[r].rta, ReadMinimum(rd[r].op)))
    /\ [][/\ (roles' # roles \/ members' # members \/ audit' # audit) =>
                \E r \in UpdIds : upd'[r] # upd[r] /\ upd[r].pc \in UpdActing
          /\ (lock' # lock \/ daily' # daily) =>
                \E r \in BfIds : bf'[r] # bf[r] /\ bf[r].pc \in BfActing
          /\ \A r \in BfIds : bf'[r].last # bf[r].last => bf[r].pc \in BfActing
          /\ \A r \in RdIds : (rd'[r].called /\ ~rd[r].called) => rd[r].pc \in RdActing]_vars

\* a shift manager has read shift data from upstream, a manager holds the
\* backfill lock and has stored a document, and an owner has changed a role
C19_Witness ==
    /\ \E r \in RdIds : /\ rd[r].op = "tabit" /\ rd[r].called /\ rd[r].status = 200
                        /\ rd[r].rta = RShiftManager
    /\ \E r \in BfIds, t \in Tenants :
            /\ bf[r].pc \in {"rel_run", "rel_send"} /\ lock[t].present
            /\ daily[t] # <<>>
    /\ \E t \in Tenants : audit[t] # {}

\* ------------------------------------------------------------------------
\* Claims on the rate limiter without its backend (SpecRate)
\* ------------------------------------------------------------------------
\* the backend is unconfigured or answered with a non-success status
\* (upstashIncr resolves to null), or the network call failed (fetch rejects)
BackendDown == rate.last.called /\ rate.last.backend \in {"null", "throw"}

\* C21: in production a call made while the backend is down throws
\* { status: 503, msg: "rate limiter unavailable" }: it returns no decision,
\* and inMemoryIncr does not run and _buckets stays as it was
C21_ProdUnavailable ==
    (BackendDown /\ env.isProd) =>
        /\ rate.last.thrown = "unavailable"
        /\ ~rate.last.memory
        /\ rate.last.same

\* C22: outside production a call made while the backend is down runs
\* inMemoryIncr and returns its decision, and throws nothing
C22_FallbackOutsideProd ==
    (BackendDown /\ ~env.isProd) =>
        /\ rate.last.thrown = "none"
        /\ rate.last.memory
        /\ rate.last.limited = (rate.hist[rate.last.key].n > rate.limit)

\* ------------------------------------------------------------------------
\* Claims on the input validation of requireTenantAccess (SpecInputs)
\* ------------------------------------------------------------------------
\* an id that is empty, not a string, longer than 128 characters, or that
\* holds one of . # $ [ ] /
Malformed(id) ==
    \/ id.t # "str"
    \/ Len(id.v) = 0
    \/ Len(id.v) > 128
    \/ \E i \in 1..Len(id.v) : id.v[i] \in {".", "#", "$", "[", "]", "/"}

\* C23: a call whose uid or tenantId is malformed, or whose minRole is none of
\* the four roles, ends with status 400 and has read nothing from the store
C23_InvalidInputNoRead ==
    \A c \in CallIds :
        (/\ calls[c].pc # "idle"
         /\ \/ Malformed(calls[c].uid)
            \/ Malformed(calls[c].tenantId)
            \/ calls[c].minRole \notin {ROwner, RManager, RShiftManager, RViewer}) =>
            /\ calls[c].pc = "done"
            /\ calls[c].status = 400
            /\ calls[c].reads = 0
            /\ calls[c].ret = JNull

\* a call with well-formed ids and an unknown minRole was rejected unread,
\* and so was one with a "[" in its uid
C23_Witness ==
    \E c \in CallIds :
        /\ calls[c].pc = "done" /\ calls[c].status = 400 /\ calls[c].reads = 0
        /\ calls[c].uid = JStr(<<"a", "[">>)
        /\ calls[c].tenantId \in ValidTenants
        /\ calls[c].minRole = RManager

\* ------------------------------------------------------------------------
\* Claims on the calendar block of a built document (SpecCalendar)
\* ------------------------------------------------------------------------
\* the calendar block of the document request 1 has built, and its date
CalBuilt == sb[1].last # NoBuild /\ sb[1].last.res.ok
Cal == sb[1].last.res.doc.calendar
CalDate == sb[1].last.res.path.date

\* C24 as stated: every date whose following day is a date of the holiday
\* table has holiday_eve = true, and every date of the holiday table has
\* holiday = true
C24_EveOfEveryHoliday ==
    CalBuilt =>
        /\ (CalDate + 1 \in IL_HOLIDAYS) => Cal.holiday_eve
        /\ (CalDate \in IL_HOLIDAYS) => Cal.holiday

\* C24 amended: every date listed in the holiday-eve table, each of them
\* the day before a date of the holiday table, and every 31 December of the
\* new-year table has holiday_eve = true; no other date has it; and every
\* date of the holiday table has holiday = true
C24_ListedEves ==
    /\ \A e \in IL_HOLIDAY_EVES : e + 1 \in IL_HOLIDAYS
    /\ CalBuilt =>
        /\ Cal.holiday_eve = (CalDate \in IL_HOLIDAY_EVES \cup NEW_YEAR_EVES)
        /\ (CalDate \in IL_HOLIDAYS) => Cal.holiday

\* the document of 2025-04-11, the eve of Pesach, was built with
\* holiday_eve = true
C24_Witness ==
    /\ CalBuilt
    /\ CalDate = DayOf(2025, 4, 11)
    /\ Cal.holiday_eve
    /\ CalDate + 1 \in IL_HOLIDAYS

\* ------------------------------------------------------------------------
\* Claims on the follow-up write of Bootstrap and UpdateRole (Spec)
\* ------------------------------------------------------------------------
\* the membership and audit write of a request failed in this step: the
\* request leaves "side" and no audit entry was added
UpdSideFailed(r) == upd[r].pc = "side" /\ upd'[r] # upd[r] /\ audit' = audit
BootSideFailed(b) == boot[b].pc = "side" /\ boot'[b] # boot[b] /\ audit' = audit

BootConfirmed(b) ==
    LET t == boot[b].tenantId
    IN  /\ (boot[b].pc = "tx_send" /\ boot'[b].pc = "side") => roles[t] = boot[b].view
        /\ (boot[b].pc = "tx_send" /\ roles[t] # boot[b].view /\ boot'[b] # boot[b]) =>
                \/ boot'[b].pc = "tx_run" /\ boot'[b].view = roles[t] /\ roles' = roles
                \/ boot'[b].pc = "done" /\ boot'[b].status = 503
        /\ (boot[b].pc # "done" /\ boot'[b].pc = "done" /\ boot'[b].status = 409) =>
                /\ boot[b].pc = "tx_run"
                /\ bootAbort(boot[b].view)
                /\ bootAbort(roles[t])

\* the same of an UpdateRole request, whose abort condition is that the
\* target is the only owner
UpdConfirmed(r) ==
    LET t == upd[r].tenantId
    IN  /\ (upd[r].pc = "tx_send" /\ upd'[r].pc = "side") => roles[t] = upd[r].view
        /\ (upd[r].pc = "tx_send" /\ roles[t] # upd[r].view /\ upd'[r] # upd[r]) =>
                \/ upd'[r].pc = "tx_run" /\ upd'[r].view = roles[t] /\ roles' = roles
                \/ upd'[r].pc = "done" /\ upd'[r].status = 503
        /\ (upd[r].pc # "done" /\ upd'[r].pc = "done" /\ upd'[r].status = 409) =>
                /\ upd[r].pc = "tx_run"
                /\ updAbort(upd[r].view, upd[r].targetUid)

\* the same of a Backfill request acquiring the lock, whose abort condition
\* is that the record in its view has not expired
AcqConfirmed(r) ==
    LET t == bf[r].tenantId
    IN  /\ (bf[r].pc = "acq_send" /\ bf'[r].pc = "loop") => lock[t] = bf[r].view
        /\ (bf[r].pc = "acq_send" /\ lock[t] # bf[r].view /\ bf'[r].pc # "done"
               /\ bf'[r] # bf[r]) =>
                bf'[r].pc = "acq_run" /\ bf'[r].view = lock[t] /\ lock' = lock
        /\ (bf[r].pc # "done" /\ bf'[r].pc = "done" /\ bf'[r].status = 409) =>
                /\ bf[r].pc = "acq_run"
                /\ acqAbort(bf[r].view, now)

\* C26: every 409 of Bootstrap, UpdateRole and lock acquire is the abort
\* condition found true by the update function on its current view; a
\* transaction commits only on the value the store holds at the commit, and
\* an attempt that lost to another writer is run again on the value then
\* stored
C26_ConflictConfirmed ==
    [][/\ \A b \in BootIds : BootConfirmed(b)
       /\ \A r \in UpdIds : UpdConfirmed(r)
       /\ \A r \in BfIds : AcqConfirmed(r)]_vars

\* ------------------------------------------------------------------------
\* Claims on the expiry of a rate window (SpecWindow)
\* ------------------------------------------------------------------------
\* the counter of a key, in the process or in the backend, is in its window
\* at the present time
MemLive(k) == buckets[k].present /\ now <= buckets[k].resetAt
RedisLive(k) == rate.redis[k].present /\ now < rate.redis[k].resetAt

\* C27: a hit on a counter that is in its window counts one more and leaves
\* the expiry where it is, whether the hit is allowed or limited; a hit on a
\* counter that is absent or past its expiry starts the count at 1 with the
\* expiry one window length later; so the expiry of the in-process counter
\* is always one window length after the first hit of its window
C27_ExpiryFixed ==
    /\ [](\A k \in TestKeys :
            rate.hist[k].open =>
                buckets[k].resetAt = rate.hist[k].start + rate.windowMs)
    /\ [][\A k \in TestKeys :
            /\ (buckets'[k] # buckets[k]) =>
                    IF MemLive(k)
                    THEN buckets'[k] = Bucket(buckets[k].count + 1, buckets[k].resetAt)
                    ELSE buckets'[k] = Bucket(1, now + rate.windowMs)
            /\ (rate'.redis[k] # rate.redis[k]) =>
                    IF RedisLive(k)
                    THEN rate'.redis[k] =
                            Bucket(rate.redis[k].count + 1, rate.redis[k].resetAt)
                    ELSE rate'.redis[k] = Bucket(1, now + rate.windowMs)]_vars

\* both counters of a key are over the limit, their latest hits were made
\* after the first hit of the window, and the expiries are those of the
\* first hit
C27_Witness ==
    \E k \in TestKeys :
        /\ MemLive(k) /\ buckets[k].count > rate.limit
        /\ now > rate.hist[k].start
        /\ RedisLive(k) /\ rate.redis[k].count > rate.limit
        /\ rate.redis[k].resetAt < now + rate.windowMs
        /\ rate.last.called /\ rate.last.limited

\* ------------------------------------------------------------------------
\* Claims on the self-bootstrap check (SpecSelf)
\* ------------------------------------------------------------------------
\* the body names a well-formed uid that is not the caller's
OtherUid(b) ==
    /\ boot[b].asked.t = "str"
    /\ Len(boot[b].asked.v) \in 1..128
    /\ \A i \in 1..Len(boot[b].asked.v) :
            boot[b].asked.v[i] \notin {".", "#", "$", "[", "]", "/"}
    /\ boot[b].asked.v # boot[b].caller

\* C28: a request is inside its role transaction or past it only with the
\* caller's own uid; a request rejected on a well-formed body uid that is
\* not the caller's got 403, and 403 is answered to no other request; the
\* commit of a Bootstrap request makes the caller owner and changes nothing
\* else of the role map
C28_SelfBootstrapOnly ==
    /\ [](\A b \in BootIds :
            /\ boot[b].pc \in {"tx_run", "tx_send", "side"} => boot[b].uid = boot[b].caller
            /\ (boot[b].pc = "done" /\ boot[b].asked # JNull /\ OtherUid(b)) =>
                    boot[b].status = 403
            /\ (boot[b].pc = "done" /\ boot[b].status = 403) => OtherUid(b))
    /\ [][\A b \in BootIds :
            /\ (boot[b].pc = "body" /\ boot'[b].pc = "tx_run") =>
                    boot'[b].uid = boot[b].caller
            /\ (roles' # roles /\ boot'[b] # boot[b]) =>
                    /\ boot[b].pc = "tx_send"
                    /\ roles' = [roles EXCEPT ![boot[b].tenantId][boot[b].caller] = ROwner]]_vars

\* a request whose body named the other user was answered 403, and the owner
\* of the tenant is the caller of a request that went through with its own
\* uid
C28_Witness ==
    /\ \E b \in BootIds :
        /\ boot[b].pc = "done" /\ boot[b].status = 403
        /\ boot[b].caller = UidA /\ boot[b].asked = JStr(UidB)
    /\ \E b \in BootIds : boot[b].pc = "done" /\ boot[b].status = 200
    /\ \E t \in Tenants : OwnersOf(roles[t]) = {UidA}

\* ------------------------------------------------------------------------
\* Claims on the freshness of the access check (SpecFresh)
\* ------------------------------------------------------------------------
\* the membership flag and the role the store holds for the caller of call c
StoredMember(c) == members[calls[c].tenantId.v][calls[c].uid.v]
StoredRole(c) == roles[calls[c].tenantId.v][calls[c].uid.v]

\* C29: a call passes its membership check only if the store holds the
\* flag true at that read, and it returns only if the role the store holds
\* at its role read is at or over minRole, returning that role; so a call
\* whose role read comes after the commit of a demotion or a removal
\* decides on the role left by it
C29_DecidesOnStoredRole ==
    [][\A c \in CallIds :
        /\ (calls[c].pc = "member" /\ calls'[c].pc = "role") => StoredMember(c) = JTrue
        /\ (calls[c].pc = "role" /\ calls'[c].pc = "done") =>
                /\ calls'[c].reads = 2
                /\ (calls'[c].status = 0) =>
                        /\ Cleared(StoredRole(c), calls[c].minRole)
                        /\ calls'[c].ret = StoredRole(c)
                /\ (calls'[c].failed = "none" /\ ~Cleared(StoredRole(c), calls[c].minRole)) =>
                        calls'[c].status = 403 /\ calls'[c].ret = JNull]_vars

\* user a, an owner at the start, was made viewer by a committed UpdateRole,
\* and the call asking for manager was then rejected on the role it read
C29_Witness ==
    \E c \in CallIds :
        /\ calls[c].pc = "done" /\ calls[c].status = 403 /\ calls[c].reads = 2
        /\ calls[c].minRole = RManager
        /\ calls[c].role = RViewer
        /\ \E r \in UpdIds : upd[r].pc = "done" /\ upd[r].status = 200

\* ------------------------------------------------------------------------
\* Claims on the order of the provider calls of a build (SpecBuild)
\* ------------------------------------------------------------------------
OptionalProviders == {"tabit", "weather", "oref"}

\* the required provider's answer is a failure: no response, a non-success
\* status, or a body that is not JSON
RequiredFailed(a) ==
    \/ a.kind # "http"
    \/ a.status < 200 \/ a.status > 299
    \/ a.body.t \in {"invalid", "null"}

\* C30: every build calls the required provider first; a build whose
\* required provider failed has called nothing else, and its outcome is that
\* provider's failure, with no document; the optional providers are called
\* only in builds whose required provider succeeded, and then all three
C30_RequiredFirst ==
    \A r \in SbIds :
        sb[r].last # NoBuild =>
            LET l == sb[r].last
            IN  /\ l.calls[1] = "beecomm"
                /\ RequiredFailed(l.up.beecomm) =>
                        /\ l.calls = <<"beecomm">>
                        /\ ~l.res.ok /\ ~l.wrote
                        /\ l.res = fetchBeecommDaily(l.up.beecomm)
                /\ (\E i \in 1..Len(l.calls) : l.calls[i] \in OptionalProviders) =>
                        /\ ~RequiredFailed(l.up.beecomm)
                        /\ l.res.ok
                        /\ {l.calls[i] : i \in 2..Len(l.calls)} = OptionalProviders

\* a build whose required provider timed out ended with that failure after
\* one call, although the optional providers were up
C30_Witness ==
    \E r \in SbIds :
        /\ sb[r].last # NoBuild
        /\ sb[r].last.up.beecomm = FetchFail("timeout")
        /\ sb[r].last.up.tabit = TabitOk(8)
        /\ sb[r].last.up.oref = OrefOk
        /\ sb[r].last.calls = <<"beecomm">>
        /\ sb[r].last.res = Thrown("beecomm", Reason("timeout", 0))

\* ------------------------------------------------------------------------
\* Claims on zeros in a built document (SpecBuild)
\* ------------------------------------------------------------------------
\* the provider's answer is a success whose body holds the number 0 in one
\* of the fields
ReportedZero(a, fields) ==
    /\ a.kind = "http" /\ a.status >= 200 /\ a.status <= 299
    /\ a.body.t = "obj"
    /\ \E f \in fields : a.body.raw[f] = JNum(0)

\* C31: in a built document revenue_total, tickets, weather.rain_mm and
\* weather.temp_avg are the number 0 only when the source's status is "ok"
\* and its answer held 0 in the field the value is read from
C31_ZeroOnlyIfReported ==
    \A r \in SbIds :
        (sb[r].last # NoBuild /\ sb[r].last.res.ok) =>
            LET l == sb[r].last
                doc == l.res.doc
            IN  /\ doc.revenue_total = JNum(0) =>
                        /\ doc.meta.sources.beecomm = "ok"
                        /\ ReportedZero(l.up.beecomm, {"total_sales", "totalSales"})
                /\ doc.tickets = JNum(0) =>
                        /\ doc.meta.sources.beecomm = "ok"
                        /\ ReportedZero(l.up.beecomm, {"transaction_count"})
                /\ (doc.weather # JNull /\ doc.weather.rain_mm = JNum(0)) =>
                        /\ doc.meta.sources.weather = "ok"
                        /\ ReportedZero(l.up.weather, {"precipitation_sum"})
                /\ (doc.weather # JNull /\ doc.weather.temp_avg = JNum(0)) =>
                        /\ doc.meta.sources.weather = "ok"
                        /\ ReportedZero(l.up.weather, {"temperature_2m_mean"})

\* ------------------------------------------------------------------------
\* Claims on the membership and audit write (SpecSide)
\* ------------------------------------------------------------------------
\* the audit entries request r of UpdateRole, or request b of Bootstrap, wrote
UpdAudit(r) == {a \in UNION {audit[t] : t \in Tenants} : a.key = <<"roles", r>>}
BootAudit(b) == {a \in UNION {audit[t] : t \in Tenants} : a.key = <<"bootstrap", b>>}

\* C32: the membership flags and the audit log change only in the step in
\* which a request whose role mutation has committed makes its follow-up
\* write and answers 200; a request reaches that write only from the commit
\* of its transaction or of its owner write; so only a request answered 200
\* has an audit entry
C32_SideAfterCommit ==
    /\ [](/\ \A r \in UpdIds : UpdAudit(r) # {} => upd[r].pc = "done" /\ upd[r].status = 200
          /\ \A b \in BootIds : BootAudit(b) # {} => boot[b].pc = "done" /\ boot[b].status = 200)
    /\ [][/\ (members' # members \/ audit' # audit) =>
                \/ \E r \in UpdIds : upd[r].pc = "side" /\ upd'[r].pc = "done"
                                        /\ upd'[r].status = 200
                \/ \E b \in BootIds : boot[b].pc = "side" /\ boot'[b].pc = "done"
                                        /\ boot'[b].status = 200
          /\ \A r \in UpdIds : (upd[r].pc # "side" /\ upd'[r].pc = "side") =>
                upd[r].pc \in {"tx_send", "set"}
          /\ \A b \in BootIds : (boot[b].pc # "side" /\ boot'[b].pc = "side") =>
                boot[b].pc = "tx_send" /\ roles'[boot[b].tenantId][boot[b].uid] = ROwner]_vars

\* a Bootstrap request was answered 200 and left its audit entry and the
\* membership flag, and an UpdateRole request refused as the removal of the
\* last owner left no entry
C32_Witness ==
    /\ \E b \in BootIds : boot[b].pc = "done" /\ boot[b].status = 200 /\ BootAudit(b) # {}
    /\ \E r \in UpdIds : upd[r].pc = "done" /\ upd[r].status = 409 /\ UpdAudit(r) = {}
    /\ \E t \in Tenants, u \in Uids : roles[t][u] = ROwner /\ members[t][u] = JTrue

\* ------------------------------------------------------------------------
\* Claims on the writers of one daily document (SpecWriters)
\* ------------------------------------------------------------------------
\* what the store holds after a write of each document one buildDailyDoc
\* call can return for the tenant and date
BuildsOf(tenantId, date) ==
    {rtdbValue(buildDailyDoc(tenantId, date, env.tabitKey, up, now).doc) : up \in WriterAnswers}

\* the documents of the tenant other than the one at the date
OtherDocs(store, tenantId, date) ==
    [d \in DOMAIN store[tenantId] \ {date} |-> store[tenantId][d]]

\* C33: every stored daily document is the document of one single
\* buildDailyDoc call, never a combination of the fields of two builds; a
\* step that changes the daily store is the write of one driver, which puts
\* the whole document of the build it has just made at that build's path and
\* leaves every other document alone
C33_OneBuildStored ==
    /\ [](\A t \in AllTenants : \A d \in DOMAIN daily[t] : daily[t][d] \in BuildsOf(t, d))
    /\ [][daily' # daily =>
            \/ \E r \in SbIds :
                /\ Built(r) /\ sb'[r].last.wrote
                /\ LET b == sb'[r].last.res
                   IN /\ daily'[b.path.tenantId][b.path.date] = rtdbValue(b.doc)
                      /\ OtherDocs(daily', b.path.tenantId, b.path.date)
                            = OtherDocs(daily, b.path.tenantId, b.path.date)
                      /\ \A t \in AllTenants \ {b.path.tenantId} : daily'[t] = daily[t]
            \/ \E r \in BfIds :
                /\ bf[r].pc = "loop" /\ bf'[r].idx = bf[r].idx + 1 /\ bf'[r].last.wrote
                /\ LET b == bf'[r].last.res
                   IN /\ daily'[b.path.tenantId][b.path.date] = rtdbValue(b.doc)
                      /\ OtherDocs(daily', b.path.tenantId, b.path.date)
                            = OtherDocs(daily, b.path.tenantId, b.path.date)
                      /\ \A t \in AllTenants \ {b.path.tenantId} : daily'[t] = daily[t]]_vars

\* a Backfill request and a ScheduledBuilder run, both mid-run, have written
\* the same date of the same tenant from different upstream answers, and the
\* document of the later write is what is stored
C33_Witness ==
    /\ bf[1].pc = "rel_run" /\ bf[1].last.wrote /\ bf[1].last.up = AllOk
    /\ bf[1].last.res.path.tenantId = TenantT /\ bf[1].last.res.path.date = 1
    /\ sb[1].pc = "done" /\ sb[1].last.wrote /\ sb[1].last.up = OtherDay
    /\ sb[2].pc = "loop"
    /\ daily[TenantT][1] = rtdbValue(sb[1].last.res.doc)
    /\ daily[TenantT][1] # rtdbValue(bf[1].last.res.doc)

\* C34: while a Backfill request holds the backfill lock of a tenant, no
\* ScheduledBuilder run builds and writes a document of that tenant, and no
\* two ScheduledBuilder runs are inside their loop at the same tenant at once
C34_DriversExcluded ==
    /\ [](\A r, q \in SbIds :
            (r # q /\ sb[r].pc = "loop" /\ sb[q].pc = "loop") => BuiltFor(r) # BuiltFor(q))
    /\ [][\A r \in SbIds :
            (Built(r) /\ sb'[r].last.wrote) =>
                ~ \E q \in BfIds : /\ bf[q].pc = "loop" /\ Holds(q)
                                   /\ lock[bf[q].tenantId].present
                                   /\ lock[bf[q].tenantId].lockId = bf[q].lockId
                                   /\ bf[q].tenantId = BuiltFor(r)]_vars

\* ------------------------------------------------------------------------
\* Claims on the public alert endpoint (SpecOref)
\* ------------------------------------------------------------------------
\* C35: the upstream is fetched at most once per cache lifetime: any two
\* calls of fetch(UPSTREAM), whichever requests make them and however the
\* fetches end, are at least 15 seconds apart
C35_OneFetchPerLifetime ==
    \A i, j \in DOMAIN orefApi.fetches :
        i < j => orefApi.fetches[j] - orefApi.fetches[i] >= CACHE_MS

\* ------------------------------------------------------------------------
\* Claims on the convergence of the membership flags (SpecConverge)
\* ------------------------------------------------------------------------
\* no Bootstrap or UpdateRole request is between its arrival and its answer
NoneInFlight ==
    /\ \A b \in BootIds : boot[b].pc \in {"idle", "done", "absent"}
    /\ \A r \in UpdIds : upd[r].pc \in {"idle", "done", "absent"}

\* C36: when no store access fails and no Bootstrap or UpdateRole request is
\* in flight, members[uid] is true exactly for the uids that have an entry in
\* the role map of the tenant
C36_MembersConverge ==
    NoneInFlight =>
        \A t \in Tenants, u \in Uids : (members[t][u] = JTrue) <=> (roles[t][u] # JNull)

\* ------------------------------------------------------------------------
\* Claims on the analytics check (SpecCheck)
\* ------------------------------------------------------------------------
\* C37: a step of the analytics check, whatever the request's outcome,
\* leaves the role map, the membership flags, the audit log, the lock record
\* and every stored analytics document as they are; of the stores only the
\* rate-limit counters change
C37_CheckReadOnly ==
    [][\A r \in RdIds :
        (rd'[r] # rd[r] /\ rd'[r].op = "check") =>
            /\ roles' = roles /\ members' = members /\ audit' = audit
            /\ lock' = lock /\ daily' = daily]_vars

\* a check has answered 200 with a mismatch against a stored document, which
\* is still the stored one, and its arrival has counted in the rate windows
C37_Witness ==
    \E r \in RdIds :
        /\ rd[r].pc = "done" /\ rd[r].op = "check" /\ rd[r].status = 200
        /\ rd[r].checksum # JNull /\ rd[r].checksum.match = JBool(FALSE)
        /\ daily[TenantT][1].revenue_total = rd[r].checksum.stored_revenue
        /\ daily[TenantT][1].revenue_total # rd[r].checksum.fresh_revenue
        /\ buckets # [k \in BucketKeys |-> NoBucket]

\* ------------------------------------------------------------------------
\* Claims on what a commit leaves alone (SpecFrame)
\* ------------------------------------------------------------------------
\* between this state and the next, the role map differs at most in the
\* entry of uid u of tenant t, and the members and lock of every other
\* tenant are the same
OnlyEntry(t, u) ==
    /\ \A t2 \in AllTenants, u2 \in Uids :
            <<t2, u2>> # <<t, u>> => roles'[t2][u2] = roles[t2][u2]
    /\ \A t2 \in AllTenants \ {t} : members'[t2] = members[t2] /\ lock'[t2] = lock[t2]

\* C38: the commit of a Bootstrap or UpdateRole request changes the role map
\* in the entry of the request's target uid of its target tenant only, and the
\* role map changes in no other step
C38_CommitFrame ==
    [][/\ \A r \in UpdIds :
            (upd[r].pc \in {"tx_send", "set"} /\ upd'[r].pc = "side") =>
                OnlyEntry(upd[r].tenantId, upd[r].targetUid)
       /\ \A b \in BootIds :
            (boot[b].pc = "tx_send" /\ boot'[b].pc = "side") =>
                OnlyEntry(boot[b].tenantId, boot[b].uid)
       /\ roles' # roles =>
            \/ \E r \in UpdIds : upd[r].pc \in {"tx_send", "set"} /\ upd'[r].pc = "side"
            \/ \E b \in BootIds : boot[b].pc = "tx_send" /\ boot'[b].pc = "side"]_vars

\* an UpdateRole request on the second tenant has committed the removal of a
\* uid there while the first tenant's role map, with an owner and another
\* role holder, and the other uid of the second tenant are as they were
C38_Witness ==
    \E r \in UpdIds :
        /\ upd[r].pc = "side" /\ upd[r].tenantId = TenantU /\ upd[r].targetUid = UidB
        /\ roles[TenantU][UidB] = JNull /\ roles[TenantU][UidA] = ROwner
        /\ roles[TenantT][UidA] = ROwner /\ roles[TenantT][UidB] = RViewer
        /\ members[TenantT][UidB] = JTrue

\* an optional provider answered with a success status and a body that
\* parses as JSON: an object, or, for the alert history, the array of alerts
\* the provider serves
Succeeded(a) == a.kind = "http" /\ a.status \in 200..299 /\ a.body.t \in {"obj", "arr"}

\* C39: in every document a build returns, an optional provider that is
\* configured and answers with a success status and a well-formed payload
\* has a non-null block and the status "ok", and the status "missing" is that
\* of a provider that failed or is not configured
C39_OptionalOk ==
    \A r \in SbIds :
        (sb[r].last # NoBuild /\ sb[r].last.res.ok) =>
            LET l == sb[r].last
                doc == l.res.doc
            IN  /\ (env.tabitKey /\ Succeeded(l.up.tabit)) =>
                        doc.staffing # JNull /\ doc.meta.sources.tabit = "ok"
                /\ Succeeded(l.up.weather) =>
                        doc.weather # JNull /\ doc.meta.sources.weather = "ok"
                /\ Succeeded(l.up.oref) =>
                        doc.alerts # JNull /\ doc.meta.sources.oref = "ok"
                /\ doc.meta.sources.tabit = "missing" =>
                        ~env.tabitKey \/ ~Succeeded(l.up.tabit)
                /\ doc.meta.sources.weather = "missing" => ~Succeeded(l.up.weather)
                /\ doc.meta.sources.oref = "missing" => ~Succeeded(l.up.oref)

\* ------------------------------------------------------------------------
\* Claims on the actor of an UpdateRole request (Spec)
\* ------------------------------------------------------------------------
\* request r commits its role mutation in this step
UpdCommits(r) == upd[r].pc \in {"tx_send", "set"} /\ upd'[r].pc = "side"

\* the role map holds the owner role for the actor of request r
ActorIsOwner(r) == roles[upd[r].tenantId][upd[r].caller] = ROwner

\* C40 as stated: an UpdateRole request commits a change of the role map only
\* while the role map holds the owner role for its actor
C40_OwnerAtCommit ==
    [][\A r \in UpdIds : (UpdCommits(r) /\ roles' # roles) => ActorIsOwner(r)]_vars

\* C40, amended: an UpdateRole request changes the role map only if the role
\* map held the owner role for its actor at the moment of the request's
\* authorization check, the role read of requireTenantAccess; the role map
\* changes in no other step of an UpdateRole request
C40_OwnerAtCheck ==
    [][\A r \in UpdIds :
        /\ (upd[r].pc = "rta_role" /\ upd'[r].pc \in {"tx_run", "set"}) =>
                ActorIsOwner(r) /\ upd'[r].rta = ROwner
        /\ UpdCommits(r) => upd[r].rta = ROwner
        /\ (upd'[r] # upd[r] /\ roles' # roles) => UpdCommits(r)]_vars

\* a request has committed its change after another request, which removed
\* the actor from the role map, had committed after the actor's check: the
\* role map holds the actor's change, made while the actor had no role
C40_Witness ==
    \E r, q \in UpdIds :
        /\ r # q
        /\ upd[r].pc = "side" /\ upd[r].rta = ROwner
        /\ upd[r].targetUid = upd[r].caller /\ upd[r].role = RViewer
        /\ upd[q].pc \in {"side", "done"} /\ upd[q].status \in {0, 200}
        /\ upd[q].targetUid = upd[r].caller /\ upd[q].role = JNull
        /\ upd[q].caller # upd[r].caller
        /\ roles[upd[r].tenantId][upd[r].caller] = RViewer
====
